---- MODULE Spec2Model ----
(***************************************************************************)
(* Model of the trade simulator of the Forex backtester (src/backtest.py): *)
(* ForexBacktester.simulate_trades with open_position,                     *)
(* should_close_position, close_position and calculate_position_size, and  *)
(* ForexBacktester.run_backtest, which runs it once per trading pair; of    *)
(* generate_signals, calculate_performance_metrics and                      *)
(* calculate_equity_curve; and of the Monte Carlo simulation and the        *)
(* walk-forward analysis of MonteCarloSimulator (src/monte_carlo.py).       *)
(*                                                                         *)
(* Units.  The code computes with binary floats; the model computes with   *)
(* exact decimals held in integers:                                        *)
(*   prices      in pips of the symbol (pip = 0.0001, or 0.01 for JPY),     *)
(*   money       in cents (balance, pnl, daily_pnl),                        *)
(*   lot sizes   in hundredths of a lot (lot_size 0.01 is 1),               *)
(*   percentages in tenths of a percent (RISK_PER_TRADE 0.5 is 5).          *)
(***************************************************************************)
EXTENDS Integers, Sequences, FiniteSets, TLC

\* ---------------------------------------------------------------- bounds
\* Number of bars of the DataFrame handed to simulate_trades.
MaxBars == 5
\* Number of time units in one calendar day (timestamps are integers).
DayLen == 2
\* Number of bars of a DataFrame run_backtest hands to simulate_trades.
MaxPairBars == 3
\* Largest balance calculate_position_size is called with, in units of $10.
MaxSizeBalance == 250
\* Largest number of trades in a trade log handed to the analysis functions.
MaxLogLen == 3
\* Largest number of bars of a DataFrame handed to generate_signals.
MaxSignalBars == 2
\* Largest number of trades in a log handed to the Monte Carlo simulation.
MaxConfigLines == 2
MaxExtraBars == 1
MaxMainTrades == 1
MaxResample == 2

\* ------------------------------------------------------- program constants
\* Bars are skipped once this many trades in a row lost (backtest.py:259).
RsiWindow == 14
ConsecutiveLossLimit == 3
\* Lot bounds of calculate_position_size in hundredths (backtest.py:231-232).
MinLot == 1
MaxLot == 100
\* Return thresholds of calculate_target_probabilities, in percent
\* (monte_carlo.py:214, 222, 230).
Day1Target == 900
Day2Target == 200
Day3MinTarget == 2

\* ------------------------------------------------------------------ inputs
\* Configurations load_config can return (the first is the defaults of
\* __init__); initial_balance in cents, percentages in tenths of a percent.
DefaultConfig ==
    [risk_per_trade |-> 5, daily_loss_limit |-> 30, stop_loss_pips |-> 8,
     take_profit_pips |-> 12, initial_balance |-> 1000]
Configs ==
    { DefaultConfig,
      [risk_per_trade |-> 5, daily_loss_limit |-> 30, stop_loss_pips |-> 8,
       take_profit_pips |-> 12, initial_balance |-> 167200] }

\* Symbols simulate_trades is called with.
Symbols == {"EURUSD", "USDJPY"}

\* Close prices of the bars, in pips.
Prices == {100, 108, 120}

\* (Buy_Signal, Sell_Signal) pairs generate_signals produces.
Signals == {<<0, 0>>, <<1, 0>>, <<0, 1>>}

\* Distance between the timestamps of two successive bars of a DataFrame.
Spacings == {1, 2}

\* Values of self.trading_pairs (TRADING_PAIRS of the configuration).
PairLists == {<<"EURUSD">>, <<"EURUSD", "USDJPY">>, <<"USDJPY", "EURUSD">>}

\* Arguments of calculate_position_size: the risk in tenths of a percent, the
\* balance in cents (negative and zero included) and the stop distance in
\* units of 0.0001.
SizeRisks == {5, 10, 25}
SizeBalances == {1000 * b : b \in -5..MaxSizeBalance}
SizeDistances == {1, 8, 30, 800}

\* Completed trades as the analysis functions read them: the exit timestamp
\* and the realised P&L in cents.
LogTimes == {1, 2, 3}
LogPnls == {-50, 0, 80}
LogTrades == { [exit_time |-> t, pnl |-> p] : t \in LogTimes, p \in LogPnls }
\* The sequences of at most n elements of S.
RECURSIVE SeqsUpTo(_, _)
SeqsUpTo(S, n) ==
    IF n = 0 THEN {<<>>}
    ELSE LET shorter == SeqsUpTo(S, n - 1)
         IN  shorter \cup { Append(s, x) : s \in {t \in shorter : Len(t) = n - 1}, x \in S }
TradeLogs == SeqsUpTo(LogTrades, MaxLogLen)

\* A float column value is the set of its number: NaN, the undefined value
\* of the rolling windows, is the empty set.
NaN == {}
\* Rows of a DataFrame with indicator columns: Close and the EMAs in pips,
\* BB_Position in hundredths, RSI in points.
IndicatorRows ==
    { [Close |-> {c}, EMA_20 |-> f, EMA_200 |-> s, BB_Position |-> b, RSI |-> r] :
        c \in {100, 108}, f \in {NaN, {104}}, s \in {NaN, {100}, {108}},
        b \in {NaN, {20}, {80}}, r \in {NaN, {50}, {80}} }
\* The DataFrames of n such rows.
IndicatorFrames(n) == [1..n -> IndicatorRows]

\* The ten trades of the documented metrics example, P&L in cents.
ExamplePnl ==
    <<5000, -2000, 3000, -1000, 4000, -1500, 2500, -500, 6000, -3000>>
ExampleLog == [k \in 1..Len(ExamplePnl) |-> [exit_time |-> k, pnl |-> ExamplePnl[k]]]
MetricsLogs == TradeLogs \cup {ExampleLog}

\* Configuration files as load_config returns them: the first holds the
\* documented defaults, the second sets every key to another value.  The
\* balance in cents, targets and the confidence level in percent.
ConfigFiles ==
    { [BACKTEST_INITIAL_BALANCE |-> 1000, MONTE_CARLO_CONFIDENCE_LEVEL |-> 95,
       DAY_1_TARGET |-> 900, DAY_2_TARGET |-> 200, DAY_3_PLUS_TARGET_MIN |-> 2],
      [BACKTEST_INITIAL_BALANCE |-> 2000, MONTE_CARLO_CONFIDENCE_LEVEL |-> 90,
       DAY_1_TARGET |-> 8, DAY_2_TARGET |-> 4, DAY_3_PLUS_TARGET_MIN |-> 1] }

\* Trade logs handed to run_monte_carlo_simulation, and its num_runs.
ResampleLogs ==
    { [k \in 1..Len(ps) |-> [exit_time |-> k, pnl |-> ps[k]]] :
        ps \in SeqsUpTo(LogPnls, MaxResample) }
RunCounts == {1, 2}

\* period_months and step_months of run_walk_forward_analysis; the exit
\* timestamps of its logs count whole months.
PeriodMonths == {1, 2, 12}
StepMonths == {1, 2}
\* Logs over thirteen months, months 1 to 14: one with a trade in every
\* month, the same given latest trade first, and one with a trade in the
\* first and in the last month only.
ThirteenMonthLog ==
    [k \in 1..14 |-> [exit_time |-> k, pnl |-> <<80, -50, 0>>[(k % 3) + 1]]]
WalkForwardLogs ==
    TradeLogs \cup
        { ThirteenMonthLog,
          [k \in 1..14 |-> ThirteenMonthLog[15 - k]],
          <<ThirteenMonthLog[1], ThirteenMonthLog[14]>> }
\* The periods a log is analysed with: the logs of fourteen trades with
\* windows of a year.
WalkForwardPeriods(log) == IF Len(log) = 14 THEN {12} ELSE PeriodMonths

\* The keys of the configuration file that the two constructors read as
\* numbers, and the texts a line can give one: an integer, a decimal, a word
\* and nothing.
ConfigKeys ==
    {"RISK_PER_TRADE", "DAILY_LOSS_LIMIT", "STOP_LOSS_PIPS", "TAKE_PROFIT_PIPS",
     "BACKTEST_INITIAL_BALANCE", "MONTE_CARLO_RUNS", "MONTE_CARLO_CONFIDENCE_LEVEL"}
ConfigValues == { <<"5">>, <<"0", ".", "5">>, <<"a", "b", "c">>, <<>> }
\* The lines of a configuration file: key=value, or such a line commented
\* out with '#'.
ConfigLines ==
    [comment : {FALSE}, key : ConfigKeys, value : ConfigValues]
        \cup {[comment |-> TRUE, key |-> "RISK_PER_TRADE", value |-> <<"a", "b", "c">>]}
\* The configuration files: their lines, or NoFile for a path without file.
NoFile == [exists |-> FALSE, lines |-> <<>>]
ConfigTexts ==
    {[exists |-> TRUE, lines |-> lines] : lines \in SeqsUpTo(ConfigLines, MaxConfigLines)}
        \cup {NoFile}
\* The balances calculate_position_size is called with after construction.
RiskBalances == {10, 1000}

\* The Close columns calculate_indicators is given: n bars at 100 pips that
\* step up by 8 from bar up on and down by 20 from bar down on (a step at
\* bar n + 1 never happens), around the length of the RSI window.
CloseSeries(n, up, down) ==
    [k \in 1..n |-> 100 + (IF k >= up THEN 8 ELSE 0) - (IF k >= down THEN 20 ELSE 0)]
CloseColumns ==
    { CloseSeries(c[1], c[2], c[3]) :
        c \in { d \in ((RsiWindow - 1)..(RsiWindow + MaxExtraBars))
                       \X (2..(RsiWindow + MaxExtraBars + 1))
                       \X (2..(RsiWindow + MaxExtraBars + 1)) :
                  d[2] <= d[1] + 1 /\ d[3] <= d[1] + 1 } }

\* The command lines of main: the three --skip flags.
MainArgs ==
    [skip_backtest : BOOLEAN, skip_monte_carlo : BOOLEAN, skip_walk_forward : BOOLEAN]
\* The trade lists a backtest returns and trades.csv of an earlier run holds.
MainLogs == SeqsUpTo(LogTrades, MaxMainTrades)

\* The rows a DataFrame can hold at timestamp t (row.name = t).
Rows(t) ==
    { [time |-> t, Close |-> p, Buy_Signal |-> sg[1], Sell_Signal |-> sg[2]] :
        p \in Prices, sg \in Signals }

\* position = None
None == [status |-> "NONE"]
\* row before the first iteration
NoRow == [time |-> -1]

VARIABLES
    self,                \* the backtester's configuration (self.*)
    symbol,              \* argument of simulate_trades
    spacing,             \* timestamp distance of the bars of df
    i,                   \* index of the next bar of df.iterrows()
    row,                 \* the bar being processed
    pc,                  \* position in the loop: "head", "open", "done"
    trades,              \* simulate_trades' local list
    balance,
    position,
    consecutive_losses,
    daily_pnl,
    closes,              \* history: number of close_position calls
    opens,               \* history: number of open_position calls
    trading_pairs,       \* run_backtest: self.trading_pairs
    pair,                \* run_backtest: index of the next symbol
    all_trades,          \* run_backtest: the trade log of the results
    call                 \* a call of a pure function: arguments and result

vars == <<self, symbol, spacing, i, row, pc, trades, balance, position,
          consecutive_losses, daily_pnl, closes, opens,
          trading_pairs, pair, all_trades, call>>

\* The variables of run_backtest, and those of simulate_trades' loop.
backtestVars == <<trading_pairs, pair, all_trades>>
loopVars == <<i, row, trades, balance, position, consecutive_losses,
              daily_pnl, closes, opens>>

\* No pure function has been called.
NoCall == [fn |-> "none"]

\* ------------------------------------------------------- pure functions
\* pip_value of open_position in units of 0.0001: 'JPY' in symbol.
IsJPY(sym) == sym \in {"USDJPY"}
PipValue(sym) == IF IsJPY(sym) THEN 100 ELSE 1

\* Value in cents of a move of one pip on 0.01 lot:
\* pip_value * 0.01 * 100000 dollars.
CentsPerPip(sym) == 10 * PipValue(sym)

\* Python's round(x, 2) on x = n/d hundredths, n >= 0, d > 0: to the nearest
\* hundredth, a tie to the even one.
Round2(n, d) ==
    LET q == n \div d
        r == n % d
    IN  IF 2 * r < d THEN q
        ELSE IF 2 * r > d THEN q + 1
        ELSE IF q % 2 = 0 THEN q ELSE q + 1

\* Mutant of CalculatePositionSize: no minimum lot size.
CalculatePositionSizeNoMinimum(cfg, bal, price, stop_loss_distance) ==
    LET n == bal * cfg.risk_per_trade
        d == 10000 * stop_loss_distance
        hi == IF n > MaxLot * d THEN <<MaxLot, 1>> ELSE <<n, d>>
    IN  Round2(hi[1], hi[2])

\* calculate_position_size(balance, price, stop_loss_distance), with
\* stop_loss_distance in units of 0.0001 and the result in hundredths of a
\* lot.  risk_amount = balance * risk_per_trade / 100 and
\* lot_size = risk_amount / (stop_loss_distance * 100000) give, in
\* hundredths, the fraction n/d below.
CalculatePositionSize(cfg, bal, price, stop_loss_distance) ==
    LET n == bal * cfg.risk_per_trade
        d == 10000 * stop_loss_distance
        \* lot_size = max(lot_size, 0.01)
        lo == IF n < MinLot * d THEN <<MinLot, 1>> ELSE <<n, d>>
        \* lot_size = min(lot_size, 1.0)
        hi == IF lo[1] > MaxLot * lo[2] THEN <<MaxLot, 1>> ELSE lo
    IN  Round2(hi[1], hi[2])

\* open_position(direction, row, symbol, balance)
OpenPosition(cfg, direction, r, sym, bal) ==
    LET price == r.Close
        stop_loss_distance == cfg.stop_loss_pips
        take_profit_distance == cfg.take_profit_pips
    IN  [symbol |-> sym,
         direction |-> direction,
         entry_price |-> price,
         entry_time |-> r.time,
         lot_size |-> CalculatePositionSize(cfg, bal, price,
                          cfg.stop_loss_pips * PipValue(sym)),
         stop_loss |-> IF direction = "BUY" THEN price - stop_loss_distance
                       ELSE price + stop_loss_distance,
         take_profit |-> IF direction = "BUY" THEN price + take_profit_distance
                         ELSE price - take_profit_distance,
         status |-> "OPEN"]

ShouldClosePositionAlways(pos, r) == TRUE

\* should_close_position(position, row)
ShouldClosePosition(pos, r) ==
    LET price == r.Close
    IN  IF pos.direction = "BUY"
        THEN price <= pos.stop_loss \/ price >= pos.take_profit
        ELSE price >= pos.stop_loss \/ price <= pos.take_profit

\* Mutant of ClosePosition: the exit time is read from the position.
ClosePositionStampsEntry(pos, r, bal) ==
    LET exit_price == r.Close
        exit_time == pos.entry_time
        pnl == IF pos.direction = "BUY"
               THEN (exit_price - pos.entry_price) * pos.lot_size
                        * CentsPerPip(pos.symbol)
               ELSE (pos.entry_price - exit_price) * pos.lot_size
                        * CentsPerPip(pos.symbol)
    IN  [symbol |-> pos.symbol,
         direction |-> pos.direction,
         entry_price |-> pos.entry_price,
         exit_price |-> exit_price,
         entry_time |-> pos.entry_time,
         exit_time |-> exit_time,
         lot_size |-> pos.lot_size,
         pnl |-> pnl,
         duration |-> exit_time - pos.entry_time,
         status |-> "CLOSED"]

\* close_position(position, row, balance)
ClosePosition(pos, r, bal) ==
    LET exit_price == r.Close
        exit_time == r.time
        pnl == IF pos.direction = "BUY"
               THEN (exit_price - pos.entry_price) * pos.lot_size
                        * CentsPerPip(pos.symbol)
               ELSE (pos.entry_price - exit_price) * pos.lot_size
                        * CentsPerPip(pos.symbol)
    IN  [symbol |-> pos.symbol,
         direction |-> pos.direction,
         entry_price |-> pos.entry_price,
         exit_price |-> exit_price,
         entry_time |-> pos.entry_time,
         exit_time |-> exit_time,
         lot_size |-> pos.lot_size,
         pnl |-> pnl,
         duration |-> exit_time - pos.entry_time,
         status |-> "CLOSED"]

\* ------------------------------------------- the body of simulate_trades
\* The loop's local variables as one value.
LoopState(tr, bal, pos, cl, dp) ==
    [trades |-> tr, balance |-> bal, position |-> pos,
     consecutive_losses |-> cl, daily_pnl |-> dp]

InitialLoopStateDoubleBalance(cfg) ==
    LoopState(<<>>, 2 * cfg.initial_balance, None, 0, 0)

\* simulate_trades before the first bar.
InitialLoopState(cfg) == LoopState(<<>>, cfg.initial_balance, None, 0, 0)

\* if daily_pnl <= -balance * self.daily_loss_limit / 100.0: continue
DailyLossGate(cfg, s) ==
    s.daily_pnl * 1000 <= -(s.balance * cfg.daily_loss_limit)

ConsecutiveLossGateNever(s) == FALSE

\* if consecutive_losses >= 3: continue
ConsecutiveLossGate(s) == s.consecutive_losses >= ConsecutiveLossLimit

\* Mutant of BalanceAfter: the close leaves the balance alone.
BalanceAfterNoUpdate(bal, trade_result) == bal

\* balance += trade_result['pnl']
BalanceAfter(bal, trade_result) == bal + trade_result.pnl

\* The counter after a close: += 1 on pnl < 0, else reset to 0.
LossesAfter(cl, trade_result) == IF trade_result.pnl < 0 THEN cl + 1 ELSE 0

\* "Close existing position if conditions are met"
CloseStep(s, r) ==
    IF s.position # None /\ ShouldClosePosition(s.position, r)
    THEN LET trade_result == ClosePosition(s.position, r, s.balance)
         IN  LoopState(Append(s.trades, trade_result),
                       BalanceAfter(s.balance, trade_result),
                       None,
                       LossesAfter(s.consecutive_losses, trade_result),
                       s.daily_pnl + trade_result.pnl)
    ELSE s

\* Mutant of SlotFree: a signal opens a position whatever the slot holds.
SlotFreeAlways(pos) == TRUE

\* if position is None
SlotFree(pos) == pos = None

\* Mutant of OpenSize: the position is sized from the initial balance.
OpenSizeInitialBalance(cfg, s) == cfg.initial_balance

\* The balance open_position is called with.
OpenSize(cfg, s) == s.balance

\* "Open new position if signal exists"
OpenStep(cfg, s, r, sym) ==
    IF SlotFree(s.position)
    THEN IF r.Buy_Signal = 1
         THEN [s EXCEPT !.position =
                           OpenPosition(cfg, "BUY", r, sym, OpenSize(cfg, s))]
         ELSE IF r.Sell_Signal = 1
         THEN [s EXCEPT !.position =
                           OpenPosition(cfg, "SELL", r, sym, OpenSize(cfg, s))]
         ELSE s
    ELSE s

\* ------------------------------------------ simulate_trades, step by step
Loop == LoopState(trades, balance, position, consecutive_losses, daily_pnl)

SetLoop(s) ==
    /\ trades' = s.trades
    /\ balance' = s.balance
    /\ position' = s.position
    /\ consecutive_losses' = s.consecutive_losses
    /\ daily_pnl' = s.daily_pnl

\* Timestamp of the bar at index k.
BarTime(k) == k * spacing

Init ==
    /\ self \in Configs
    /\ symbol \in Symbols
    /\ spacing \in Spacings
    /\ i = 0
    /\ row = NoRow
    /\ pc = "head"
    /\ trades = <<>>
    /\ balance = self.initial_balance
    /\ position = None
    /\ consecutive_losses = 0
    /\ daily_pnl = 0
    /\ closes = 0
    /\ opens = 0
    /\ trading_pairs = <<>> /\ pair = 0 /\ all_trades = <<>>
    /\ call = NoCall

\* A bar skipped by the daily loss limit.
SkipDailyLoss ==
    /\ pc = "head" /\ i < MaxBars
    /\ DailyLossGate(self, Loop)
    /\ row' \in Rows(BarTime(i))
    /\ i' = i + 1
    /\ UNCHANGED <<self, symbol, spacing, pc, trades, balance, position,
                   consecutive_losses, daily_pnl, closes, opens,
                   backtestVars, call>>

\* A bar skipped by the consecutive losses limit.
SkipConsecutiveLosses ==
    /\ pc = "head" /\ i < MaxBars
    /\ ~DailyLossGate(self, Loop)
    /\ ConsecutiveLossGate(Loop)
    /\ row' \in Rows(BarTime(i))
    /\ i' = i + 1
    /\ UNCHANGED <<self, symbol, spacing, pc, trades, balance, position,
                   consecutive_losses, daily_pnl, closes, opens,
                   backtestVars, call>>

\* First half of the body on a bar neither gate skips.
Close ==
    /\ pc = "head" /\ i < MaxBars
    /\ ~DailyLossGate(self, Loop)
    /\ ~ConsecutiveLossGate(Loop)
    /\ \E r \in Rows(BarTime(i)) :
          /\ row' = r
          /\ SetLoop(CloseStep(Loop, r))
          /\ closes' = IF CloseStep(Loop, r) # Loop THEN closes + 1 ELSE closes
    /\ pc' = "open"
    /\ UNCHANGED <<self, symbol, spacing, i, opens, backtestVars, call>>

\* Second half of the body.
Open ==
    /\ pc = "open"
    /\ SetLoop(OpenStep(self, Loop, row, symbol))
    /\ opens' = IF OpenStep(self, Loop, row, symbol) # Loop
                THEN opens + 1 ELSE opens
    /\ i' = i + 1
    /\ pc' = "head"
    /\ UNCHANGED <<self, symbol, spacing, row, closes, backtestVars, call>>

\* return trades
Return ==
    /\ pc = "head" /\ i = MaxBars
    /\ pc' = "done"
    /\ UNCHANGED <<self, symbol, spacing, loopVars, backtestVars, call>>

Next ==
    \/ SkipDailyLoss
    \/ SkipConsecutiveLosses
    \/ Close
    \/ Open
    \/ Return

Spec == Init /\ [][Next]_vars

\* ------------------------------------------------ simulate_trades, whole
\* One iteration of the loop of simulate_trades on row r.
ProcessBar(cfg, s, r, sym) ==
    IF DailyLossGate(cfg, s) THEN s
    ELSE IF ConsecutiveLossGate(s) THEN s
    ELSE OpenStep(cfg, CloseStep(s, r), r, sym)

RECURSIVE RunBars(_, _, _, _, _)
\* for i, row in df.iterrows(), from the k-th row on.
RunBars(cfg, s, df, k, sym) ==
    IF k > Len(df) THEN s
    ELSE RunBars(cfg, ProcessBar(cfg, s, df[k], sym), df, k + 1, sym)

\* simulate_trades(df, symbol): the trades it returns.
SimulateTrades(cfg, df, sym) ==
    RunBars(cfg, InitialLoopState(cfg), df, 1, sym).trades

\* Close prices of the bars run_backtest reads for a pair, in pips: a move
\* between them crosses the stop or the target of either configuration.
PairPrices == {100, 120}

\* The DataFrames of n bars with timestamps 0, sp, 2 sp, ...
DataFrames(n, sp) ==
    { [k \in 1..n |->
          [time |-> (k - 1) * sp, Close |-> f[k][1],
           Buy_Signal |-> f[k][2][1], Sell_Signal |-> f[k][2][2]]] :
        f \in [1..n -> PairPrices \X Signals] }

\* ------------------------------------------------------------ run_backtest
BacktestInit ==
    /\ self \in Configs
    /\ trading_pairs \in PairLists
    /\ spacing \in Spacings
    /\ pair = 1
    /\ all_trades = <<>>
    /\ pc = "pairs"
    /\ symbol = "" /\ i = 0 /\ row = NoRow /\ trades = <<>> /\ balance = 0
    /\ position = None /\ consecutive_losses = 0 /\ daily_pnl = 0
    /\ closes = 0 /\ opens = 0
    /\ call = NoCall

\* for symbol in self.trading_pairs; get_historical_data returned an empty
\* DataFrame: continue
NoData ==
    /\ pc = "pairs" /\ pair <= Len(trading_pairs)
    /\ symbol' = trading_pairs[pair]
    /\ pair' = pair + 1
    /\ UNCHANGED <<self, spacing, pc, loopVars, trading_pairs, all_trades, call>>

\* for symbol in self.trading_pairs;
\* trades = self.simulate_trades(df, symbol); all_trades.extend(trades)
SimulatePair ==
    /\ pc = "pairs" /\ pair <= Len(trading_pairs)
    /\ symbol' = trading_pairs[pair]
    /\ \E n \in 1..MaxPairBars : \E df \in DataFrames(n, spacing) :
          /\ trades' = SimulateTrades(self, df, trading_pairs[pair])
          /\ all_trades' = all_trades \o trades'
    /\ pair' = pair + 1
    /\ UNCHANGED <<self, spacing, pc, i, row, balance, position,
                   consecutive_losses, daily_pnl, closes, opens, trading_pairs, call>>

\* The loop over the trading pairs is over: results['all_trades']
BacktestResults ==
    /\ pc = "pairs" /\ pair > Len(trading_pairs)
    /\ pc' = "results"
    /\ UNCHANGED <<self, symbol, spacing, loopVars, backtestVars, call>>

BacktestNext ==
    \/ NoData
    \/ SimulatePair
    \/ BacktestResults

SpecBacktest == BacktestInit /\ [][BacktestNext]_vars

\* -------------------------------------------- calculate_position_size alone
SizeInit ==
    /\ call = NoCall
    /\ pc = "call"
    /\ self = DefaultConfig
    /\ symbol = "" /\ spacing = 1 /\ i = 0 /\ row = NoRow /\ trades = <<>>
    /\ balance = 0 /\ position = None /\ consecutive_losses = 0
    /\ daily_pnl = 0 /\ closes = 0 /\ opens = 0
    /\ trading_pairs = <<>> /\ pair = 0 /\ all_trades = <<>>

\* A call calculate_position_size(balance, price, stop_loss_distance) on a
\* backtester whose risk_per_trade is risk.
SizeCall ==
    /\ pc = "call"
    /\ \E risk \in SizeRisks, bal \in SizeBalances, price \in Prices,
          dist \in SizeDistances :
          call' = [fn |-> "calculate_position_size",
                   risk_per_trade |-> risk,
                   balance |-> bal,
                   stop_loss_distance |-> dist,
                   result |-> CalculatePositionSize(
                                 [self EXCEPT !.risk_per_trade = risk],
                                 bal, price, dist)]
    /\ pc' = "returned"
    /\ UNCHANGED <<self, symbol, spacing, loopVars, backtestVars>>

SizeNext == SizeCall

SpecSize == SizeInit /\ [][SizeNext]_vars

\* ------------------------------------------------- calculate_equity_curve
\* The simulator's variables at rest, for the specifications of functions
\* that read only the configuration.
SimulatorIdle ==
    /\ symbol = "" /\ spacing = 1 /\ i = 0 /\ row = NoRow /\ trades = <<>>
    /\ balance = 0 /\ position = None /\ consecutive_losses = 0
    /\ daily_pnl = 0 /\ closes = 0 /\ opens = 0
    /\ trading_pairs = <<>> /\ pair = 0 /\ all_trades = <<>>

\* The injective maps of 1..n onto itself.
RowOrders(n) ==
    { p \in [1..n -> 1..n] : \A a, b \in 1..n : a # b => p[a] # p[b] }

\* The orders of the rows of log numbered in rows that are ascending in
\* exit_time: any row of least exit_time first, then the others.
RECURSIVE SortedRowOrders(_, _)
SortedRowOrders(log, rows) ==
    IF rows = {} THEN {<<>>}
    ELSE UNION { { <<first>> \o rest : rest \in SortedRowOrders(log, rows \ {first}) } :
                 first \in { a \in rows :
                               \A b \in rows : log[a].exit_time <= log[b].exit_time } }

SortValuesKeepsOrder(log) == {log}

\* df_trades.sort_values('exit_time'): the rows in ascending exit_time.  The
\* default quicksort is not stable, so rows with equal exit_time come in any
\* order: the operator is the set of the orders the sort can produce.
SortValues(log) ==
    { [k \in 1..Len(log) |-> log[p[k]]] : p \in SortedRowOrders(log, 1..Len(log)) }

\* The loop over df_trades.iterrows() from row k on, with the running balance.
RECURSIVE EquityLoop(_, _, _)
EquityLoop(df, k, bal) ==
    IF k > Len(df) THEN <<>>
    ELSE LET b == bal + df[k].pnl
         IN  <<[time |-> df[k].exit_time, balance |-> b, trade_pnl |-> df[k].pnl]>>
                 \o EquityLoop(df, k + 1, b)

\* calculate_equity_curve(trades): the rows of the DataFrame it can return
\* (no rows for the empty DataFrame of an empty log).
CalculateEquityCurve(cfg, log) ==
    IF log = <<>> THEN {<<>>}
    ELSE { EquityLoop(df, 1, cfg.initial_balance) : df \in SortValues(log) }

EquityInit ==
    /\ call = NoCall
    /\ pc = "call"
    /\ self \in Configs
    /\ SimulatorIdle

EquityCall ==
    /\ pc = "call"
    /\ \E log \in TradeLogs :
          \E curve \in CalculateEquityCurve(self, log) :
              call' = [fn |-> "calculate_equity_curve", trades |-> log,
                       result |-> curve]
    /\ pc' = "returned"
    /\ UNCHANGED <<self, symbol, spacing, loopVars, backtestVars>>

EquityNext == EquityCall

SpecEquity == EquityInit /\ [][EquityNext]_vars

\* ------------------------------------------------------- generate_signals
GtNaNTrue(a, b) == a = NaN \/ b = NaN \/ \E x \in a, y \in b : x > y

\* a > b and a < b on floats: False when either side is NaN.
Gt(a, b) == \E x \in a, y \in b : x > y
Lt(a, b) == \E x \in a, y \in b : x < y

\* buy_condition of one row.
BuyCondition(r) ==
    /\ Gt(r.Close, r.EMA_20)
    /\ Gt(r.Close, r.EMA_200)
    /\ Gt(r.EMA_20, r.EMA_200)
    /\ Lt(r.BB_Position, {30})
    /\ Lt(r.RSI, {70})

SellConditionAsBuy(r) == BuyCondition(r)

\* sell_condition of one row.
SellCondition(r) ==
    /\ Lt(r.Close, r.EMA_20)
    /\ Lt(r.Close, r.EMA_200)
    /\ Lt(r.EMA_20, r.EMA_200)
    /\ Gt(r.BB_Position, {70})
    /\ Gt(r.RSI, {30})

\* generate_signals(df): an empty frame is returned as it is; otherwise both
\* signal columns are set to 0 and then to 1 on the rows of each condition.
GenerateSignals(df) ==
    IF df = <<>> THEN df
    ELSE [k \in 1..Len(df) |->
            [Close |-> df[k].Close, EMA_20 |-> df[k].EMA_20,
             EMA_200 |-> df[k].EMA_200, BB_Position |-> df[k].BB_Position,
             RSI |-> df[k].RSI,
             Buy_Signal |-> IF BuyCondition(df[k]) THEN 1 ELSE 0,
             Sell_Signal |-> IF SellCondition(df[k]) THEN 1 ELSE 0]]

SignalsInit ==
    /\ call = NoCall
    /\ pc = "call"
    /\ self = DefaultConfig
    /\ SimulatorIdle

SignalsCall ==
    /\ pc = "call"
    /\ \E n \in 0..MaxSignalBars :
          \E df \in IndicatorFrames(n) :
              call' = [fn |-> "generate_signals", df |-> df,
                       result |-> GenerateSignals(df)]
    /\ pc' = "returned"
    /\ UNCHANGED <<self, symbol, spacing, loopVars, backtestVars>>

SignalsNext == SignalsCall

SpecSignals == SignalsInit /\ [][SignalsNext]_vars

\* ------------------------------------------ calculate_performance_metrics
\* Floats that are quotients are kept as exact fractions num / den; a zero
\* den with a positive num is float('inf').
Frac(n, d) == [num |-> n, den |-> d]
Infinity == Frac(1, 0)
RECURSIVE Gcd(_, _)
Gcd(a, b) == IF b = 0 THEN a ELSE Gcd(b, a % b)
\* The fraction n / d in lowest terms (the same number).
Lowest(n, d) ==
    LET g == Gcd(IF n < 0 THEN -n ELSE n, IF d < 0 THEN -d ELSE d)
    IN  IF g = 0 THEN Frac(n, d) ELSE Frac(n \div g, d \div g)
FracMul(a, b) ==
    LET x == Lowest(a.num, b.den)
        y == Lowest(b.num, a.den)
    IN  Lowest(x.num * y.num, x.den * y.den)
\* a - b; the difference of two infinities of the same sign, or with a NaN,
\* is NaN, and that of two infinities of opposite signs is the first.
FracSub(a, b) ==
    LET x == Lowest(a.num, a.den)
        y == Lowest(b.num, b.den)
    IN  IF x.den = 0 /\ y.den = 0
        THEN (IF x.num = 0 \/ y.num = 0 \/ x.num = y.num THEN Frac(0, 0) ELSE x)
        ELSE Lowest(x.num * y.den - y.num * x.den, x.den * y.den)

ZeroTradesDict == [total_trades |-> 0]

\* The dict with no key.
EmptyDict == [key \in {} |-> 0]

\* df_trades['pnl'].values
PnlValues(log) == [k \in 1..Len(log) |-> log[k].pnl]

\* .sum() / np.sum of a sequence of numbers.
RECURSIVE SumOver(_, _, _)
\* The sum of xs[lo..hi], added up by halves.
SumOver(xs, lo, hi) ==
    IF lo > hi THEN 0
    ELSE IF lo = hi THEN xs[lo]
    ELSE SumOver(xs, lo, (lo + hi) \div 2) + SumOver(xs, (lo + hi) \div 2 + 1, hi)
Sum(xs) == SumOver(xs, 1, Len(xs))

IsPositiveOrZero(x) == x >= 0

\* The row filters pnl > 0 and pnl < 0.
IsPositive(x) == x > 0
IsNegative(x) == x < 0

Abs(x) == IF x < 0 THEN -x ELSE x

\* np.cumsum, np.maximum.accumulate and np.max.
CumSum(xs) == [k \in 1..Len(xs) |-> SumOver(xs, 1, k)]
MaxOf(xs) ==
    CHOOSE x \in {xs[k] : k \in 1..Len(xs)} : \A k \in 1..Len(xs) : xs[k] <= x
MaximumAccumulateNone(xs) == xs
MaximumAccumulate(xs) == [k \in 1..Len(xs) |-> MaxOf(SubSeq(xs, 1, k))]

\* The drawdown block of calculate_performance_metrics.
MetricsMaxDrawdown(returns) ==
    LET cumulative_returns == CumSum(returns)
        running_max == MaximumAccumulate(cumulative_returns)
        drawdown == [k \in 1..Len(returns) |-> running_max[k] - cumulative_returns[k]]
    IN  IF Len(drawdown) > 0 THEN MaxOf(drawdown) ELSE 0

\* The Sharpe block: the value is mean / sqrt(variance) * sqrt(252), kept as
\* its exact parts, with np.std the population deviation; 0 for a single
\* return or a zero deviation.
SharpeRatio(returns) ==
    LET n == Len(returns)
        s == Sum(returns)
        sq == Sum([k \in 1..n |-> returns[k] * returns[k]])
    IN  IF n > 1 /\ n * sq - s * s > 0
        THEN [mean |-> Frac(s, n), variance |-> Frac(n * sq - s * s, n * n)]
        ELSE [mean |-> Frac(0, 1), variance |-> Frac(1, 1)]

\* total_profit / total_loss if total_loss > 0 else float('inf')
ProfitFactor(total_profit, total_loss) ==
    IF total_loss > 0 THEN Frac(total_profit, total_loss) ELSE Infinity

\* calculate_performance_metrics(trades)
CalculatePerformanceMetrics(log) ==
    IF log = <<>> THEN EmptyDict
    ELSE
    LET returns == PnlValues(log)
        total_trades == Len(log)
        winning_trades == Len(SelectSeq(returns, IsPositive))
        losing_trades == Len(SelectSeq(returns, IsNegative))
        total_profit == Sum(SelectSeq(returns, IsPositive))
        total_loss == Abs(Sum(SelectSeq(returns, IsNegative)))
        win_rate == IF total_trades > 0 THEN Frac(winning_trades * 100, total_trades)
                    ELSE Frac(0, 1)
        avg_win == IF winning_trades > 0 THEN Frac(total_profit, winning_trades)
                   ELSE Frac(0, 1)
        avg_loss == IF losing_trades > 0 THEN Frac(total_loss, losing_trades)
                    ELSE Frac(0, 1)
    IN  [total_trades |-> total_trades,
         winning_trades |-> winning_trades,
         losing_trades |-> losing_trades,
         win_rate |-> win_rate,
         net_profit |-> Sum(returns),
         total_profit |-> total_profit,
         total_loss |-> total_loss,
         profit_factor |-> ProfitFactor(total_profit, total_loss),
         max_drawdown |-> MetricsMaxDrawdown(returns),
         sharpe_ratio |-> SharpeRatio(returns),
         expectancy |-> FracSub(FracMul(FracMul(win_rate, Frac(1, 100)), avg_win),
                                FracMul(FracMul(FracSub(Frac(100, 1), win_rate),
                                                Frac(1, 100)), avg_loss)),
         avg_win |-> avg_win,
         avg_loss |-> avg_loss]

\* --------------------------------------------------- MonteCarloSimulator
\* The MonteCarloSimulator built from a configuration file.
MonteCarloSimulator(config) ==
    [config |-> config,
     confidence_level |-> config.MONTE_CARLO_CONFIDENCE_LEVEL,
     initial_balance |-> config.BACKTEST_INITIAL_BALANCE]

\* calculate_max_drawdown(returns)
CalculateMaxDrawdown(returns) ==
    LET cumulative_returns == CumSum(returns)
        running_max == MaximumAccumulate(cumulative_returns)
        drawdown == [k \in 1..Len(returns) |-> running_max[k] - cumulative_returns[k]]
    IN  IF Len(drawdown) > 0 THEN MaxOf(drawdown) ELSE 0

\* calculate_period_metrics(period_trades) of the simulator mc
CalculatePeriodMetrics(mc, period_trades) ==
    IF Len(period_trades) = 0 THEN EmptyDict
    ELSE
    LET returns == PnlValues(period_trades)
        total_trades == Len(period_trades)
        winning_trades == Len(SelectSeq(returns, IsPositive))
        losing_trades == Len(SelectSeq(returns, IsNegative))
        total_profit == Sum(SelectSeq(returns, IsPositive))
        total_loss == Abs(Sum(SelectSeq(returns, IsNegative)))
        net_profit == Sum(returns)
    IN  [total_trades |-> total_trades,
         winning_trades |-> winning_trades,
         losing_trades |-> losing_trades,
         win_rate |-> IF total_trades > 0 THEN Frac(winning_trades * 100, total_trades)
                      ELSE Frac(0, 1),
         net_profit |-> net_profit,
         total_return |-> Frac(net_profit * 100, mc.initial_balance),
         profit_factor |-> ProfitFactor(total_profit, total_loss),
         max_drawdown |-> CalculateMaxDrawdown(returns)]

\* ------------------------------------------------ run_monte_carlo_simulation
\* Exact arithmetic on floats.  np.mean and np.std round their sums, so that
\* on N equal floats the code's mean and deviation can be off the value and
\* off zero by a rounding error; the model has no rounding.
FracAdd(a, b) == FracSub(a, Frac(-b.num, b.den))
FracLe(a, b) == a.num * b.den <= b.num * a.den
RECURSIVE FracSumOver(_, _, _)
\* The sum of xs[lo..hi], added up by halves.
FracSumOver(xs, lo, hi) ==
    IF lo > hi THEN Frac(0, 1)
    ELSE IF lo = hi THEN FracAdd(Frac(0, 1), xs[lo])
    ELSE LET mid == (lo + hi) \div 2
         IN  FracAdd(FracSumOver(xs, lo, mid), FracSumOver(xs, mid + 1, hi))
FracSum(xs) == FracSumOver(xs, 1, Len(xs))

\* np.random.choice(trade_returns, size=len(trade_returns), replace=True):
\* the arrays it can return.
RandomChoice(trade_returns) ==
    { [k \in 1..Len(trade_returns) |-> trade_returns[pick[k]]] :
        pick \in [1..Len(trade_returns) -> 1..Len(trade_returns)] }

FinalBalanceNoInitial(mc, simulated_trades) == Sum(simulated_trades)

\* self.initial_balance + np.sum(simulated_trades)
FinalBalance(mc, simulated_trades) == mc.initial_balance + Sum(simulated_trades)

\* The record one iteration of the simulation loop appends.
TrialRecord(mc, run, simulated_trades) ==
    LET final_balance == FinalBalance(mc, simulated_trades)
        winning_trades == Len(SelectSeq(simulated_trades, IsPositive))
    IN  [run |-> run,
         final_balance |-> final_balance,
         total_return |-> FracMul(FracSub(Lowest(final_balance, mc.initial_balance),
                                          Frac(1, 1)), Frac(100, 1)),
         win_rate |-> IF Len(simulated_trades) > 0
                      THEN Lowest(winning_trades * 100, Len(simulated_trades))
                      ELSE Frac(0, 1),
         max_drawdown |-> CalculateMaxDrawdown(simulated_trades),
         net_profit |-> Sum(simulated_trades)]

\* results_df[metric].values as floats.
MetricValues(results, metric) ==
    [k \in 1..Len(results) |->
        CASE metric = "final_balance" -> Frac(results[k].final_balance, 1)
          [] metric = "total_return" -> results[k].total_return
          [] metric = "win_rate" -> results[k].win_rate
          [] metric = "max_drawdown" -> Frac(results[k].max_drawdown, 1)]

\* The values in ascending order.
SortedValues(values) ==
    LET p == CHOOSE q \in RowOrders(Len(values)) :
                 \A k \in 1..(Len(values) - 1) : FracLe(values[q[k]], values[q[k + 1]])
    IN  [k \in 1..Len(values) |-> values[p[k]]]

\* np.percentile(values, q): linear interpolation between the two order
\* statistics around position q / 100 * (N - 1).
Percentile(values, q) ==
    LET sorted == SortedValues(values)
        pos == FracMul(q, Frac(Len(values) - 1, 100))
        below == pos.num \div pos.den
        t == FracSub(pos, Frac(below, 1))
    IN  IF below + 1 >= Len(values) THEN sorted[Len(values)]
        ELSE FracAdd(sorted[below + 1],
                     FracMul(FracSub(sorted[below + 2], sorted[below + 1]), t))

\* np.mean, np.min and np.max
Mean(values) == FracMul(FracSum(values), Frac(1, Len(values)))
RECURSIVE FracMin(_)
FracMin(xs) ==
    IF Len(xs) = 1 THEN xs[1]
    ELSE LET m == FracMin(Tail(xs)) IN IF FracLe(xs[1], m) THEN xs[1] ELSE m
RECURSIVE FracMax(_)
FracMax(xs) ==
    IF Len(xs) = 1 THEN xs[1]
    ELSE LET m == FracMax(Tail(xs)) IN IF FracLe(m, xs[1]) THEN xs[1] ELSE m

\* The sum of the squared deviations from the mean.
SquaredDeviations(values) ==
    LET mean == Mean(values)
    IN  FracSum([k \in 1..Len(values) |->
                    FracMul(FracSub(values[k], mean), FracSub(values[k], mean))])

MeanOfSquares(values) ==
    FracMul(FracSum([k \in 1..Len(values) |-> FracMul(values[k], values[k])]),
            Frac(1, Len(values)))

\* np.std(values) is the square root of the population variance; Series.std()
\* is the square root of the sample variance, NaN (0 / 0) for one value.
PopulationVariance(values) ==
    FracMul(SquaredDeviations(values), Frac(1, Len(values)))
SampleVariance(values) ==
    LET s == SquaredDeviations(values)
    IN  IF Len(values) = 1 THEN Frac(0, 0)
        ELSE FracMul(s, Frac(1, Len(values) - 1))
SqrtOf(x) == [sqrt_of |-> x]

\* calculate_confidence_intervals(results_df, alpha), alpha = alpha_pct / 100
CalculateConfidenceIntervals(results, alpha_pct) ==
    [metric \in {"final_balance", "total_return", "win_rate", "max_drawdown"} |->
        LET values == MetricValues(results, metric)
            lower_percentile == Lowest(alpha_pct, 2)
            upper_percentile == Lowest(200 - alpha_pct, 2)
        IN  [lower |-> Percentile(values, lower_percentile),
             upper |-> Percentile(values, upper_percentile),
             mean |-> Mean(values),
             std |-> SqrtOf(PopulationVariance(values))]]

\* np.sum(results_df['total_return'] >= target) / len(results_df) * 100
ProbabilityAtLeast(results, target) ==
    Lowest(Cardinality({k \in 1..Len(results) :
                          FracLe(Frac(target, 1), results[k].total_return)}) * 100,
           Len(results))

\* calculate_target_probabilities(results_df)
CalculateTargetProbabilities(results) ==
    [day1_target |-> [target |-> Day1Target,
                      probability |-> ProbabilityAtLeast(results, Day1Target)],
     day2_target |-> [target |-> Day2Target,
                      probability |-> ProbabilityAtLeast(results, Day2Target)],
     day3_min_target |-> [target |-> Day3MinTarget,
                          probability |-> ProbabilityAtLeast(results, Day3MinTarget)],
     breakeven |-> [target |-> 0, probability |-> ProbabilityAtLeast(results, 0)],
     loss |-> [target |-> 0,
               probability |->
                   Lowest(Cardinality({k \in 1..Len(results) :
                                         ~FracLe(Frac(0, 1), results[k].total_return)}) * 100,
                          Len(results))]]

\* The dictionary run_monte_carlo_simulation returns after its loop.
SimulationResults(mc, results) ==
    [simulation_data |-> results,
     confidence_intervals |->
         CalculateConfidenceIntervals(results, 100 - mc.confidence_level),
     target_probabilities |-> CalculateTargetProbabilities(results),
     statistics |->
         [mean_final_balance |-> Mean(MetricValues(results, "final_balance")),
          std_final_balance |-> SqrtOf(SampleVariance(MetricValues(results, "final_balance"))),
          mean_total_return |-> Mean(MetricValues(results, "total_return")),
          std_total_return |-> SqrtOf(SampleVariance(MetricValues(results, "total_return"))),
          mean_win_rate |-> Mean(MetricValues(results, "win_rate")),
          mean_max_drawdown |-> Mean(MetricValues(results, "max_drawdown")),
          worst_case_return |-> FracMin(MetricValues(results, "total_return")),
          best_case_return |-> FracMax(MetricValues(results, "total_return"))]]

\* The value of a result that has not been returned yet.
Pending == [pending |-> TRUE]

\* The object run_monte_carlo_simulation and run_walk_forward_analysis are
\* called on.
AnalysisInit ==
    /\ call = NoCall
    /\ pc = "call"
    /\ self \in { MonteCarloSimulator(config) : config \in ConfigFiles }
    /\ SimulatorIdle

\* if not trades: return {}
MonteCarloNoTrades ==
    /\ pc = "call"
    /\ \E num_runs \in RunCounts :
          call' = [fn |-> "run_monte_carlo_simulation", trades |-> <<>>,
                   num_runs |-> num_runs, run |-> 0, simulated_trades |-> <<>>,
                   simulation_results |-> <<>>, result |-> EmptyDict]
    /\ pc' = "returned"
    /\ UNCHANGED <<self, symbol, spacing, loopVars, backtestVars>>

\* The call with trades, up to the simulation loop.
MonteCarloStart ==
    /\ pc = "call"
    /\ \E log \in ResampleLogs \ {<<>>}, num_runs \in RunCounts :
          call' = [fn |-> "run_monte_carlo_simulation", trades |-> log,
                   num_runs |-> num_runs, run |-> 0, simulated_trades |-> <<>>,
                   simulation_results |-> <<>>, result |-> Pending]
    /\ pc' = "trials"
    /\ UNCHANGED <<self, symbol, spacing, loopVars, backtestVars>>

\* One iteration of 'for run in range(num_runs)'.
MonteCarloTrial ==
    /\ pc = "trials"
    /\ call.run < call.num_runs
    /\ \E simulated_trades \in RandomChoice(PnlValues(call.trades)) :
          call' = [call EXCEPT
                     !.simulated_trades = simulated_trades,
                     !.simulation_results =
                         Append(@, TrialRecord(self, call.run, simulated_trades)),
                     !.run = @ + 1]
    /\ UNCHANGED <<pc, self, symbol, spacing, loopVars, backtestVars>>

\* The aggregation after the loop, and the return.
MonteCarloAggregate ==
    /\ pc = "trials"
    /\ call.run = call.num_runs
    /\ call' = [call EXCEPT !.result = SimulationResults(self, call.simulation_results)]
    /\ pc' = "returned"
    /\ UNCHANGED <<self, symbol, spacing, loopVars, backtestVars>>

\* ------------------------------------------------- run_walk_forward_analysis
\* date + pd.DateOffset(months=months), on timestamps that count months.
DateOffset(date, months) == date + months

\* Series.min() and Series.max() of the exit times.
MinOf(xs) ==
    CHOOSE x \in {xs[k] : k \in 1..Len(xs)} : \A k \in 1..Len(xs) : x <= xs[k]
ExitTimes(df) == [k \in 1..Len(df) |-> df[k].exit_time]

WindowFitsInside(current_date, period_months, end_date) ==
    DateOffset(current_date, period_months) < end_date
WindowStartsInside(current_date, period_months, end_date) ==
    current_date <= end_date

\* The condition of the while loop.
WindowFits(current_date, period_months, end_date) ==
    DateOffset(current_date, period_months) <= end_date

PeriodTradesClosed(df, period_start, period_end) ==
    LET InPeriod(trade) ==
            trade.exit_time >= period_start /\ trade.exit_time <= period_end
    IN  SelectSeq(df, InPeriod)

\* The rows of df_trades with period_start <= exit_time < period_end.
PeriodTrades(df, period_start, period_end) ==
    LET InPeriod(trade) ==
            trade.exit_time >= period_start /\ trade.exit_time < period_end
    IN  SelectSeq(df, InPeriod)

\* period_metrics after the four keys of the window are added to it.
PeriodRecord(mc, period_trades, period_num, period_start, period_end) ==
    LET m == CalculatePeriodMetrics(mc, period_trades)
    IN  [total_trades |-> m.total_trades,
         winning_trades |-> m.winning_trades,
         losing_trades |-> m.losing_trades,
         win_rate |-> m.win_rate,
         net_profit |-> m.net_profit,
         total_return |-> m.total_return,
         profit_factor |-> m.profit_factor,
         max_drawdown |-> m.max_drawdown,
         period |-> period_num,
         start_date |-> period_start,
         end_date |-> period_end,
         num_trades |-> Len(period_trades)]

\* A column of the DataFrame of the window records, as floats.
PeriodValues(results, column) ==
    [k \in 1..Len(results) |->
        CASE column = "num_trades" -> Frac(results[k].num_trades, 1)
          [] column = "total_return" -> Lowest(results[k].total_return.num,
                                               results[k].total_return.den)
          [] column = "win_rate" -> Lowest(results[k].win_rate.num,
                                           results[k].win_rate.den)
          [] column = "profit_factor" -> results[k].profit_factor
          [] column = "max_drawdown" -> Frac(results[k].max_drawdown, 1)]

\* walk_forward_summary
WalkForwardSummary(walk_forward_results) ==
    IF walk_forward_results # <<>>
    THEN LET profitable ==
                 Cardinality({k \in 1..Len(walk_forward_results) :
                                walk_forward_results[k].total_return.num > 0})
         IN
         [period_results |-> walk_forward_results,
          summary_statistics |->
              [total_periods |-> Len(walk_forward_results),
               avg_trades_per_period |-> Mean(PeriodValues(walk_forward_results, "num_trades")),
               avg_return_per_period |-> Mean(PeriodValues(walk_forward_results, "total_return")),
               std_return_per_period |->
                   SqrtOf(SampleVariance(PeriodValues(walk_forward_results, "total_return"))),
               avg_win_rate |-> Mean(PeriodValues(walk_forward_results, "win_rate")),
               avg_profit_factor |-> Mean(PeriodValues(walk_forward_results, "profit_factor")),
               avg_max_drawdown |-> Mean(PeriodValues(walk_forward_results, "max_drawdown")),
               profitable_periods |-> profitable,
               profitable_period_rate |->
                   Lowest(profitable * 100, Len(walk_forward_results))]]
    ELSE [period_results |-> <<>>, summary_statistics |-> EmptyDict]

\* if not trades: return {}
WalkForwardNoTrades ==
    /\ pc = "call"
    /\ \E period_months \in PeriodMonths, step_months \in StepMonths :
          call' = [fn |-> "run_walk_forward_analysis", trades |-> <<>>,
                   period_months |-> period_months, step_months |-> step_months,
                   df_trades |-> <<>>, end_date |-> 0, current_date |-> 0,
                   period_num |-> 0, walk_forward_results |-> <<>>,
                   result |-> EmptyDict]
    /\ pc' = "returned"
    /\ UNCHANGED <<self, symbol, spacing, loopVars, backtestVars>>

\* The call with trades, up to the loop over the windows.
WalkForwardStart ==
    /\ pc = "call"
    /\ \E log \in WalkForwardLogs \ {<<>>}, step_months \in StepMonths :
          \E period_months \in WalkForwardPeriods(log), df_trades \in SortValues(log) :
              call' = [fn |-> "run_walk_forward_analysis", trades |-> log,
                       period_months |-> period_months, step_months |-> step_months,
                       df_trades |-> df_trades,
                       end_date |-> MaxOf(ExitTimes(df_trades)),
                       current_date |-> MinOf(ExitTimes(df_trades)),
                       period_num |-> 0, walk_forward_results |-> <<>>,
                       result |-> Pending]
    /\ pc' = "windows"
    /\ UNCHANGED <<self, symbol, spacing, loopVars, backtestVars>>

\* One iteration of the while loop.
WalkForwardWindow ==
    /\ pc = "windows"
    /\ WindowFits(call.current_date, call.period_months, call.end_date)
    /\ LET period_start == call.current_date
           period_end == DateOffset(call.current_date, call.period_months)
           period_trades == PeriodTrades(call.df_trades, period_start, period_end)
       IN  call' = [call EXCEPT
                      !.walk_forward_results =
                          IF Len(period_trades) > 0
                          THEN Append(@, PeriodRecord(self, period_trades, call.period_num,
                                                      period_start, period_end))
                          ELSE @,
                      !.current_date = DateOffset(@, call.step_months),
                      !.period_num = @ + 1]
    /\ UNCHANGED <<pc, self, symbol, spacing, loopVars, backtestVars>>

\* The summary after the loop, and the return.
WalkForwardReturn ==
    /\ pc = "windows"
    /\ ~WindowFits(call.current_date, call.period_months, call.end_date)
    /\ call' = [call EXCEPT !.result = WalkForwardSummary(call.walk_forward_results)]
    /\ pc' = "returned"
    /\ UNCHANGED <<self, symbol, spacing, loopVars, backtestVars>>

AnalysisNext ==
    \/ MonteCarloNoTrades
    \/ MonteCarloStart
    \/ MonteCarloTrial
    \/ MonteCarloAggregate
    \/ WalkForwardNoTrades
    \/ WalkForwardStart
    \/ WalkForwardWindow
    \/ WalkForwardReturn

SpecAnalysis == AnalysisInit /\ [][AnalysisNext]_vars

\* ----------------------------------------------- the two metrics functions
MetricsInit ==
    /\ call = NoCall
    /\ pc = "call"
    /\ self \in Configs
    /\ SimulatorIdle

MetricsCall ==
    /\ pc = "call"
    /\ \E log \in MetricsLogs :
          call' = [fn |-> "calculate_performance_metrics", trades |-> log,
                   result |-> CalculatePerformanceMetrics(log)]
    /\ pc' = "returned"
    /\ UNCHANGED <<self, symbol, spacing, loopVars, backtestVars>>

PeriodMetricsCall ==
    /\ pc = "call"
    /\ \E log \in MetricsLogs, config \in ConfigFiles :
          call' = [fn |-> "calculate_period_metrics", trades |-> log,
                   result |-> CalculatePeriodMetrics(MonteCarloSimulator(config), log)]
    /\ pc' = "returned"
    /\ UNCHANGED <<self, symbol, spacing, loopVars, backtestVars>>

\* A call calculate_max_drawdown(returns) with the pnl column of a log.
MaxDrawdownCall ==
    /\ pc = "call"
    /\ \E log \in MetricsLogs :
          call' = [fn |-> "calculate_max_drawdown", trades |-> log,
                   result |-> CalculateMaxDrawdown(PnlValues(log))]
    /\ pc' = "returned"
    /\ UNCHANGED <<self, symbol, spacing, loopVars, backtestVars>>

MetricsNext == MetricsCall \/ PeriodMetricsCall \/ MaxDrawdownCall

SpecMetrics == MetricsInit /\ [][MetricsNext]_vars

\* ------------------------------------------------------------ load_config
\* The str a value that is no number is kept as, and the number a numeric
\* value is converted to.
Str(chars) == [str |-> chars]
IsStr(v) == "str" \in DOMAIN v
Digits == {"0", "1", "2", "3", "4", "5", "6", "7", "8", "9"}
DigitOf(c) == CHOOSE d \in 0..9 : <<"0", "1", "2", "3", "4", "5", "6", "7", "8", "9">>[d + 1] = c
RECURSIVE DigitsValue(_, _)
\* The number written by the first k characters, all digits.
DigitsValue(chars, k) ==
    IF k = 0 THEN 0 ELSE 10 * DigitsValue(chars, k - 1) + DigitOf(chars[k])
RECURSIVE PowerOfTen(_)
PowerOfTen(k) == IF k = 0 THEN 1 ELSE 10 * PowerOfTen(k - 1)

\* int(value) raises ValueError unless value is a non-empty run of digits.
IntRaises(chars) == chars = <<>> \/ \E k \in 1..Len(chars) : chars[k] \notin Digits
\* float(value) of a value with a '.' raises ValueError unless it is digits
\* around one '.', with a digit on either side of it.
FloatRaises(chars) ==
    \/ Cardinality({k \in 1..Len(chars) : chars[k] = "."}) # 1
    \/ \E k \in 1..Len(chars) : chars[k] \notin Digits \cup {"."}
    \/ Len(chars) = 1
FloatOf(chars) ==
    LET dot == CHOOSE k \in 1..Len(chars) : chars[k] = "."
        digits == SelectSeq(chars, LAMBDA c : c # ".")
    IN  Lowest(DigitsValue(digits, Len(digits)), PowerOfTen(Len(chars) - dot))

\* try: float(value) if '.' in value else int(value); except ValueError:
\* the value itself.
ConvertNumeric(chars) ==
    IF "." \in {chars[k] : k \in 1..Len(chars)}
    THEN (IF FloatRaises(chars) THEN Str(chars) ELSE FloatOf(chars))
    ELSE (IF IntRaises(chars) THEN Str(chars) ELSE Frac(DigitsValue(chars, Len(chars)), 1))

\* config[key] = value
SetItem(config, key, value) ==
    [k \in DOMAIN config \cup {key} |-> IF k = key THEN value ELSE config[k]]

RECURSIVE LoadLines(_, _)
\* for line in f, over the first k lines.
LoadLines(lines, k) ==
    IF k = 0 THEN EmptyDict
    ELSE LET config == LoadLines(lines, k - 1)
             line == lines[k]
         IN  IF ~line.comment
             THEN SetItem(config, line.key, ConvertNumeric(line.value))
             ELSE config

\* load_config(config_file); FileNotFoundError leaves the dict empty.
LoadConfig(config_file) ==
    IF ~config_file.exists THEN EmptyDict
    ELSE LoadLines(config_file.lines, Len(config_file.lines))

\* self.config.get(key, default)
Get(config, key, default) == IF key \in DOMAIN config THEN config[key] ELSE default

\* ForexBacktester(config_file): the numeric attributes of __init__.
NewForexBacktester(config_file) ==
    LET config == LoadConfig(config_file)
    IN  [fn |-> "ForexBacktester",
         config_file |-> config_file,
         config |-> config,
         risk_per_trade |-> Get(config, "RISK_PER_TRADE", Frac(1, 2)),
         daily_loss_limit |-> Get(config, "DAILY_LOSS_LIMIT", Frac(3, 1)),
         stop_loss_pips |-> Get(config, "STOP_LOSS_PIPS", Frac(8, 1)),
         take_profit_pips |-> Get(config, "TAKE_PROFIT_PIPS", Frac(12, 1)),
         initial_balance |-> Get(config, "BACKTEST_INITIAL_BALANCE", Frac(10, 1)),
         result |-> Pending]

\* MonteCarloSimulator(config_file)
NewMonteCarloSimulator(config_file) ==
    LET config == LoadConfig(config_file)
    IN  [fn |-> "MonteCarloSimulator",
         config_file |-> config_file,
         config |-> config,
         simulation_runs |-> Get(config, "MONTE_CARLO_RUNS", Frac(1000, 1)),
         confidence_level |-> Get(config, "MONTE_CARLO_CONFIDENCE_LEVEL", Frac(95, 1)),
         initial_balance |-> Get(config, "BACKTEST_INITIAL_BALANCE", Frac(10, 1)),
         result |-> Pending]

ConfigInit ==
    /\ call = NoCall
    /\ pc = "call"
    /\ self = DefaultConfig
    /\ SimulatorIdle

ConstructBacktester ==
    /\ pc = "call"
    /\ \E config_file \in ConfigTexts : call' = NewForexBacktester(config_file)
    /\ pc' = "constructed"
    /\ UNCHANGED <<self, symbol, spacing, loopVars, backtestVars>>

ConstructSimulator ==
    /\ pc = "call"
    /\ \E config_file \in ConfigTexts : call' = NewMonteCarloSimulator(config_file)
    /\ pc' = "constructed"
    /\ UNCHANGED <<self, symbol, spacing, loopVars, backtestVars>>

\* risk_amount = balance * self.risk_per_trade / 100.0 of
\* calculate_position_size: a str for risk_per_trade raises TypeError.
RiskAmount ==
    /\ pc = "constructed"
    /\ call.fn = "ForexBacktester"
    /\ \E bal \in RiskBalances :
          IF IsStr(call.risk_per_trade)
          THEN /\ pc' = "TypeError"
               /\ UNCHANGED call
          ELSE /\ pc' = "returned"
               /\ call' = [call EXCEPT !.result =
                               FracMul(FracMul(Frac(bal, 1), call.risk_per_trade),
                                       Frac(1, 100))]
    /\ UNCHANGED <<self, symbol, spacing, loopVars, backtestVars>>

ConfigNext ==
    \/ ConstructBacktester
    \/ ConstructSimulator
    \/ RiskAmount

SpecConfig == ConfigInit /\ [][ConfigNext]_vars

\* ---------------------------------------------- calculate_indicators (RSI)
\* The RSI block of calculate_indicators; the EMA and Bollinger columns are
\* computed from Close alone and do not enter it.  Floats are fractions,
\* NaN is 0/0 and the infinities are 1/0 and -1/0.
NaNFloat == Frac(0, 0)
\* a / b on floats as pandas divides: x/0 is an infinity, 0/0 is NaN.
FracDiv(a, b) ==
    FracMul(a, IF b.num < 0 THEN Frac(-b.den, -b.num) ELSE Frac(b.den, b.num))
\* df['Close'].diff()
Diff(close) ==
    [k \in 1..Len(close) |->
        IF k = 1 THEN NaNFloat ELSE Frac(close[k] - close[k - 1], 1)]
\* delta > 0 and delta < 0, False on NaN.
Rising(x) == x.den # 0 /\ x.num > 0
Falling(x) == x.den # 0 /\ x.num < 0
\* series.where(cond, 0): a series without NaN, of whole pips, kept as
\* integers.
Where(series, cond(_)) ==
    [k \in 1..Len(series) |-> IF cond(series[k]) THEN series[k].num ELSE 0]
\* -series
Negated(series) == [k \in 1..Len(series) |-> -series[k]]
\* series.rolling(window).mean(), on a series of integers.
RollingMean(series, window) ==
    [k \in 1..Len(series) |->
        IF k < window THEN NaNFloat
        ELSE Lowest(Sum(SubSeq(series, k - window + 1, k)), window)]
\* gain and loss: the rolling means of the rises and of the falls.
Gain(delta) == RollingMean(Where(delta, Rising), RsiWindow)
Loss(delta) == RollingMean(Negated(Where(delta, Falling)), RsiWindow)
\* rs = gain / loss and df['RSI'] = 100 - (100 / (1 + rs))
RSI(gain, loss) ==
    LET rs == [k \in 1..Len(gain) |-> FracDiv(gain[k], loss[k])]
    IN  [k \in 1..Len(gain) |->
            FracSub(Frac(100, 1), FracDiv(Frac(100, 1), FracAdd(Frac(1, 1), rs[k])))]

IndicatorsInit ==
    /\ call = NoCall
    /\ pc = "call"
    /\ self = DefaultConfig
    /\ SimulatorIdle

\* if df.empty: return df
IndicatorsEmpty ==
    /\ pc = "call"
    /\ call' = [fn |-> "calculate_indicators", Close |-> <<>>, RSI |-> <<>>]
    /\ pc' = "returned"
    /\ UNCHANGED <<self, symbol, spacing, loopVars, backtestVars>>

\* The call on a DataFrame with bars, up to the averages of the RSI block.
IndicatorsAverages ==
    /\ pc = "call"
    /\ \E close \in CloseColumns :
          call' = [fn |-> "calculate_indicators", Close |-> close,
                   gain |-> Gain(Diff(close)), loss |-> Loss(Diff(close))]
    /\ pc' = "averages"
    /\ UNCHANGED <<self, symbol, spacing, loopVars, backtestVars>>

\* The RSI column, and the return.
IndicatorsRSI ==
    /\ pc = "averages"
    /\ call' = [fn |-> "calculate_indicators", Close |-> call.Close,
                RSI |-> RSI(call.gain, call.loss)]
    /\ pc' = "returned"
    /\ UNCHANGED <<self, symbol, spacing, loopVars, backtestVars>>

IndicatorsNext == IndicatorsEmpty \/ IndicatorsAverages \/ IndicatorsRSI

SpecIndicators == IndicatorsInit /\ [][IndicatorsNext]_vars

\* ------------------------------------------------------------------- main
\* Python's truth value of a dict or None, and of a list.
Truthy(v) == v # None /\ v # EmptyDict
TruthyList(l) == Len(l) > 0

\* What main reads of the dict run_backtest returns.
BacktestResultsOf(log) == [all_trades |-> log, overall_metrics |-> "computed"]
\* load_existing_results(output_dir): None without trades.csv, else the
\* dict of the trades it holds.
LoadedResults == {None} \cup {BacktestResultsOf(log) : log \in MainLogs}
\* What main reads of run_monte_carlo_simulation(all_trades): {} without
\* trades, else a dict with simulation_data and statistics.
MainMonteCarlo(all) ==
    IF all = <<>> THEN EmptyDict
    ELSE [simulation_data |-> "computed", statistics |-> "computed"]
\* What main reads of run_walk_forward_analysis(all_trades).
MainWalkForward(all) ==
    IF all = <<>> THEN EmptyDict
    ELSE [period_results |-> "computed", summary_statistics |-> "computed"]

\* The names main's module has bound: pandas is imported as pd inside
\* load_existing_results and generate_demo_plan only.
MainGlobals ==
    {"os", "sys", "argparse", "datetime", "timedelta", "json", "warnings",
     "ForexBacktester", "MonteCarloSimulator", "PerformanceReporter"}

MainInit ==
    /\ call = NoCall
    /\ pc = "main"
    /\ self = DefaultConfig
    /\ SimulatorIdle

\* The locals of main once backtest_results is bound.
MainLocals(args, results) ==
    [fn |-> "main", args |-> args, calls |-> <<>>,
     backtest_results |-> results,
     monte_carlo_results |-> None, walk_forward_results |-> None]

\* if not args.skip_backtest: run_backtest, return without trades.
MainBacktest ==
    /\ pc = "main"
    /\ \E args \in MainArgs, log \in MainLogs :
          /\ ~args.skip_backtest
          /\ call' = [MainLocals(args, BacktestResultsOf(log)) EXCEPT
                         !.calls = <<"run_backtest">>]
          /\ pc' = IF Truthy(BacktestResultsOf(log)) /\ TruthyList(log)
                   THEN "monte_carlo" ELSE "stopped"
    /\ UNCHANGED <<self, symbol, spacing, loopVars, backtestVars>>

\* else: load_existing_results, return if not backtest_results.
MainLoad ==
    /\ pc = "main"
    /\ \E args \in MainArgs, results \in LoadedResults :
          /\ args.skip_backtest
          /\ call' = [MainLocals(args, results) EXCEPT
                         !.calls = <<"load_existing_results">>]
          /\ pc' = IF Truthy(results) THEN "monte_carlo" ELSE "stopped"
    /\ UNCHANGED <<self, symbol, spacing, loopVars, backtestVars>>

\* if not args.skip_monte_carlo and backtest_results: ...
MainMonteCarloStep ==
    /\ pc = "monte_carlo"
    /\ call' = IF ~call.args.skip_monte_carlo /\ Truthy(call.backtest_results)
               THEN [call EXCEPT
                       !.monte_carlo_results = MainMonteCarlo(call.backtest_results.all_trades),
                       !.calls = Append(@, "run_monte_carlo_simulation")]
               ELSE call
    /\ pc' = "walk_forward"
    /\ UNCHANGED <<self, symbol, spacing, loopVars, backtestVars>>

\* if not args.skip_walk_forward and backtest_results: ...
MainWalkForwardStep ==
    /\ pc = "walk_forward"
    /\ call' = IF ~call.args.skip_walk_forward /\ Truthy(call.backtest_results)
               THEN [call EXCEPT
                       !.walk_forward_results = MainWalkForward(call.backtest_results.all_trades),
                       !.calls = Append(@, "run_walk_forward_analysis")]
               ELSE call
    /\ pc' = "reports"
    /\ UNCHANGED <<self, symbol, spacing, loopVars, backtestVars>>

\* reporter.generate_comprehensive_report(...), then the reports of the
\* backtester and of the simulator for the results that are there.
MainReports ==
    /\ pc = "reports"
    /\ call' = [call EXCEPT !.calls =
                   @ \o <<"generate_comprehensive_report">>
                     \o (IF Truthy(call.backtest_results)
                         THEN <<"generate_report">> ELSE <<>>)
                     \o (IF Truthy(call.monte_carlo_results)
                         THEN <<"generate_monte_carlo_report">> ELSE <<>>)]
    /\ pc' = "plan"
    /\ UNCHANGED <<self, symbol, spacing, loopVars, backtestVars>>

\* generate_demo_plan and generate_risk_disclaimer
MainPlan ==
    /\ pc = "plan"
    /\ call' = [call EXCEPT !.calls =
                   @ \o <<"generate_demo_plan", "generate_risk_disclaimer">>]
    /\ pc' = "summary"
    /\ UNCHANGED <<self, symbol, spacing, loopVars, backtestVars>>

\* print_final_summary: its Monte Carlo line evaluates pd.DataFrame() when
\* monte_carlo_results has statistics, and pd is no name of the module.
MainSummary ==
    /\ pc = "summary"
    /\ call' = [call EXCEPT !.calls = Append(@, "print_final_summary")]
    /\ pc' = IF Truthy(call.monte_carlo_results) /\ "pd" \notin MainGlobals
             THEN "NameError" ELSE "completion"
    /\ UNCHANGED <<self, symbol, spacing, loopVars, backtestVars>>

\* The completion message.
MainFinished ==
    /\ pc = "completion"
    /\ pc' = "finished"
    /\ UNCHANGED <<call, self, symbol, spacing, loopVars, backtestVars>>

MainNext ==
    \/ MainBacktest
    \/ MainLoad
    \/ MainMonteCarloStep
    \/ MainWalkForwardStep
    \/ MainReports
    \/ MainPlan
    \/ MainSummary
    \/ MainFinished

SpecMain == MainInit /\ [][MainNext]_vars

\* ------------------------------------------------------------ vocabulary
RECURSIVE SumPnl(_)
\* Sum of the pnl of a sequence of trades.
SumPnl(tr) == IF tr = <<>> THEN 0 ELSE tr[1].pnl + SumPnl(Tail(tr))

\* Calendar day of a timestamp.
DayOf(t) == t \div DayLen

RECURSIVE DayPnl(_, _)
\* Realized P&L of calendar day d: the pnl of the trades closed on d.
DayPnl(tr, d) ==
    IF tr = <<>> THEN 0
    ELSE (IF DayOf(tr[1].exit_time) = d THEN tr[1].pnl ELSE 0)
         + DayPnl(Tail(tr), d)

\* A bar is about to be taken from df.
AtBarStart == pc = "head" /\ i < MaxBars

\* The loop is inside a bar, or about to start one.
InLoop == AtBarStart \/ pc = "open"

\* Timestamp of the bar being processed (at "open") or about to be.
CurrentBarTime == IF pc = "open" THEN row.time ELSE BarTime(i)

\* A trade was closed earlier on the current bar.
ClosedThisBar ==
    pc = "open" /\ trades # <<>> /\ trades[Len(trades)].exit_time = row.time

\* The trade log and balance as they were when the current bar started.
BarStartTrades ==
    IF ClosedThisBar THEN SubSeq(trades, 1, Len(trades) - 1) ELSE trades
BarStartBalance == self.initial_balance + SumPnl(BarStartTrades)

\* The lot size calculate_position_size documents for balance bal: the exact
\* quotient x = n/d clamped to [MinLot, MaxLot], within half a hundredth.
IsLotOf(lot, risk, bal, dist) ==
    LET n == bal * risk
        d == 10000 * dist
    IN  /\ lot \in MinLot..MaxLot
        /\ n <= MinLot * d => lot = MinLot
        /\ n >= MaxLot * d => lot = MaxLot
        /\ (MinLot * d < n /\ n < MaxLot * d) =>
               (2 * (lot * d - n) <= d /\ 2 * (n - lot * d) <= d)

\* ------------------------------------------------------------------ C1
\* C1: at most one position is open at any time: a position is opened only
\* when the slot is empty immediately before the open, and the opens never
\* run more than one ahead of the closes.
C1_OpenOnlyWhenFlat ==
    /\ [](opens - closes \in {0, 1} /\ (position = None <=> opens = closes))
    /\ [][(position' # None /\ position' # position) => position = None]_vars

\* A second position was opened after the first one was closed.
C1_Witness == opens >= 2 /\ position # None

\* ------------------------------------------------------------------ C2
\* C2 (as claimed): on every bar at whose start the P&L realized on the bar's
\* calendar day is <= -balance * daily_loss_limit / 100, nothing is closed or
\* opened and the log, balance and counters stay as they are.
C2_DayGateSkipsBar ==
    [][(InLoop /\ DayPnl(BarStartTrades, DayOf(CurrentBarTime)) * 1000
                     <= -(BarStartBalance * self.daily_loss_limit))
         => UNCHANGED <<trades, balance, position, consecutive_losses,
                        daily_pnl, closes, opens>>]_vars

\* What the code does: the bar is skipped whenever its own accumulator
\* daily_pnl, which runs over all days, is at the limit.
C2_AccumulatorGateSkipsBar ==
    [][(AtBarStart /\ DailyLossGate(self, Loop))
         => UNCHANGED <<trades, balance, position, consecutive_losses,
                        daily_pnl, closes, opens>>]_vars

\* ------------------------------------------------------------------ C3
\* C3 (as claimed): the daily gate is released at a day boundary: the first
\* bar of a calendar day is processed normally although the gate condition
\* held at the end of the day before (balance positive, fewer than three
\* losses in a row).
C3_GateReleasedNextDay ==
    [][(/\ AtBarStart /\ i > 0
        /\ DayOf(BarTime(i)) # DayOf(BarTime(i - 1))
        /\ DailyLossGate(self, Loop)
        /\ ~ConsecutiveLossGate(Loop)
        /\ balance > 0)
         => pc' = "open"]_vars

\* ------------------------------------------------------------------ C4
\* C4 (as claimed): the consecutive-loss pause ends with a winning trade: with
\* the counter at 3 and the daily gate open, a bar on which the open position
\* closes with a profit resets the counter to zero.
C4_WinEndsPause ==
    [][(/\ AtBarStart
        /\ ConsecutiveLossGate(Loop)
        /\ ~DailyLossGate(self, Loop)
        /\ position # None
        /\ ShouldClosePosition(position, row')
        /\ ClosePosition(position, row', balance).pnl > 0)
         => consecutive_losses' = 0]_vars

\* What the code does instead: once the counter is at 3 no trade is closed
\* and the counter keeps its value, whatever the bars are.
C4_PauseIsPermanent ==
    [][ConsecutiveLossGate(Loop)
         => UNCHANGED <<trades, balance, consecutive_losses, daily_pnl,
                        closes>>]_vars

\* ------------------------------------------------------------------ C5
\* C5 (as claimed): once a close has brought the P&L of the current calendar
\* day to <= -balance * daily_loss_limit / 100, no position is opened or
\* closed at any later step of that day, the open step of the same bar
\* included.
C5_NoTradingAfterLimit ==
    [][(/\ InLoop
        /\ \E k \in 1..Len(trades) :
              DayOf(trades[k].exit_time) = DayOf(CurrentBarTime)
        /\ DayPnl(trades, DayOf(CurrentBarTime)) * 1000
              <= -(balance * self.daily_loss_limit))
         => UNCHANGED <<trades, position>>]_vars

\* ------------------------------------------------------------------ C6
\* C6: closing is evaluated before opening: a position is opened no earlier
\* than the last close, sized from the balance that close left, and no close
\* happens on the bar on which the position was opened.
C6_CloseBeforeOpen ==
    /\ [](position # None =>
            /\ trades # <<>> =>
                  position.entry_time >= trades[Len(trades)].exit_time
            /\ position.lot_size =
                  CalculatePositionSize(self,
                      self.initial_balance + SumPnl(trades), position.entry_price,
                      self.stop_loss_pips * PipValue(symbol)))
    /\ [][closes' # closes => position.entry_time < row'.time]_vars

\* A bar closed a position and opened the next one, with another lot size.
C6_Witness ==
    /\ position # None /\ trades # <<>>
    /\ position.entry_time = trades[Len(trades)].exit_time
    /\ position.lot_size # trades[Len(trades)].lot_size

\* ------------------------------------------------------------------ C7
\* C7: every recorded trade exits strictly after it entered (duration > 0).
C7_ExitAfterEntry ==
    \A k \in 1..Len(trades) :
        /\ trades[k].exit_time > trades[k].entry_time
        /\ trades[k].duration > 0

\* Two trades were recorded.
C7_Witness == Len(trades) >= 2

\* ------------------------------------------------------------------ C9
\* C9: every close appends exactly one trade and adds its pnl to the balance:
\* len(trades) is the number of closes, balance = initial_balance + sum of
\* pnl, and an open position has the lot size of that balance.
C9_LogAndBalance ==
    /\ Len(trades) = closes
    /\ balance = self.initial_balance + SumPnl(trades)
    /\ position # None =>
           IsLotOf(position.lot_size, self.risk_per_trade, balance,
                   self.stop_loss_pips * PipValue(symbol))

\* Two closes, and the position open now has another size than the first.
C9_Witness ==
    /\ closes >= 2 /\ position # None
    /\ position.lot_size # trades[1].lot_size
    /\ balance # self.initial_balance

\* ------------------------------------------------------------------ C8
\* C8 (as claimed): the trade log run_backtest returns is ordered by close:
\* exit times are non-decreasing along all_trades.
C8_LogOrderedByExit ==
    pc = "results" =>
        \A k \in 1..(Len(all_trades) - 1) :
            all_trades[k].exit_time <= all_trades[k + 1].exit_time

\* ------------------------------------------------------------------ C10
\* C10: calculate_position_size returns risk_amount / (stop_loss_distance *
\* 100000), with risk_amount = balance * risk_per_trade / 100, clamped to
\* [0.01, 1.0] and rounded to two decimals; the result lies in [0.01, 1.0]
\* for every balance, zero and negative included.
C10_LotSize ==
    call.fn = "calculate_position_size" =>
        IsLotOf(call.result, call.risk_per_trade, call.balance,
                call.stop_loss_distance)

\* A negative balance gets the minimum lot.
C10_Witness ==
    /\ call.fn = "calculate_position_size"
    /\ call.balance < 0
    /\ call.result = MinLot

\* ------------------------------------------------------------------ C11
\* The sum of trade_pnl over the first k points of an equity curve.
RECURSIVE SumTradePnl(_, _)
SumTradePnl(curve, k) ==
    IF k = 0 THEN 0 ELSE SumTradePnl(curve, k - 1) + curve[k].trade_pnl

\* C11: calculate_equity_curve, for a trade list given in any order, yields
\* one point per trade in exit-time order, and the balance of the k-th point
\* is initial_balance plus the sum of the P&L of the first k trades in that
\* order, the point's own trade included.
C11_EquityCurve ==
    call.fn = "calculate_equity_curve" =>
        LET n == Len(call.trades)
            curve == call.result
        IN  /\ Len(curve) = n
            /\ \E p \in RowOrders(n) :
                  \A k \in 1..n :
                      /\ curve[k].time = call.trades[p[k]].exit_time
                      /\ curve[k].trade_pnl = call.trades[p[k]].pnl
            /\ \A k \in 1..(n - 1) : curve[k].time <= curve[k + 1].time
            /\ \A k \in 1..n :
                  curve[k].balance = self.initial_balance + SumTradePnl(curve, k)

\* Three trades given latest exit first, with different P&L.
C11_Witness ==
    /\ call.fn = "calculate_equity_curve"
    /\ Len(call.trades) = 3
    /\ call.trades[1].exit_time > call.trades[2].exit_time
    /\ call.trades[2].exit_time > call.trades[3].exit_time
    /\ call.trades[1].pnl # call.trades[3].pnl
    /\ call.result[1].trade_pnl = call.trades[3].pnl

\* ------------------------------------------------------------------ C12
\* C12: generate_signals never sets Buy_Signal and Sell_Signal both to 1 on
\* the same bar, whatever the close, the two EMAs, the Bollinger position
\* and the RSI of the bar are.
C12_NeverBuyAndSell ==
    call.fn = "generate_signals" =>
        \A k \in 1..Len(call.result) :
            ~(call.result[k].Buy_Signal = 1 /\ call.result[k].Sell_Signal = 1)

\* A frame with a buy bar followed by a sell bar.
C12_Witness ==
    /\ call.fn = "generate_signals"
    /\ Len(call.result) = 2
    /\ call.result[1].Buy_Signal = 1 /\ call.result[1].Sell_Signal = 0
    /\ call.result[2].Sell_Signal = 1 /\ call.result[2].Buy_Signal = 0

\* ------------------------------------------------------------------ C13
\* C13: a bar on which the fast EMA, the slow EMA, the Bollinger position or
\* the RSI is undefined gets neither a buy nor a sell signal, and
\* generate_signals returns a frame with a row for it.
C13_UndefinedGivesNoSignal ==
    call.fn = "generate_signals" =>
        /\ Len(call.result) = Len(call.df)
        /\ \A k \in 1..Len(call.df) :
              NaN \in {call.df[k].EMA_20, call.df[k].EMA_200,
                       call.df[k].BB_Position, call.df[k].RSI}
                  => /\ call.result[k].Buy_Signal = 0
                     /\ call.result[k].Sell_Signal = 0

\* A bar whose only undefined field is the RSI and that would buy with any
\* RSI below 70, next to a bar that does buy.
C13_Witness ==
    /\ call.fn = "generate_signals"
    /\ Len(call.df) = 2
    /\ call.df[1].RSI = NaN
    /\ [call.df[1] EXCEPT !.RSI = {50}] = call.df[2]
    /\ call.result[2].Buy_Signal = 1
    /\ call.result[1].Buy_Signal = 0

\* ------------------------------------------------------------------ C14
\* Number of trades of a log whose pnl satisfies Test.
CountPnl(log, Test(_)) == Cardinality({k \in 1..Len(log) : Test(log[k].pnl)})
\* Two fractions with non-zero denominators denote the same number.
FracEq(a, b) == a.den # 0 /\ b.den # 0 /\ a.num * b.den = b.num * a.den

\* C14: for every non-empty trade sequence calculate_performance_metrics
\* reports winning_trades = number of trades with pnl > 0, losing_trades =
\* number with pnl < 0, net_profit = sum of pnl, total_trades = length and
\* win_rate = winning_trades / total_trades * 100; for the P&L
\* [50, -20, 30, -10, 40, -15, 25, -5, 60, -30] that is 5, 5, 125 and 50.0.
C14_BasicMetrics ==
    (call.fn = "calculate_performance_metrics" /\ call.trades # <<>>) =>
        LET m == call.result
            wins == CountPnl(call.trades, LAMBDA x : x > 0)
        IN  /\ m.winning_trades = wins
            /\ m.losing_trades = CountPnl(call.trades, LAMBDA x : x < 0)
            /\ m.net_profit = SumPnl(call.trades)
            /\ m.total_trades = Len(call.trades)
            /\ FracEq(m.win_rate, Frac(wins * 100, Len(call.trades)))
            /\ call.trades = ExampleLog =>
                  /\ m.winning_trades = 5 /\ m.losing_trades = 5
                  /\ m.net_profit = 12500
                  /\ FracEq(m.win_rate, Frac(50, 1))

\* The metrics of the ten-trade example.
C14_Witness ==
    /\ call.fn = "calculate_performance_metrics"
    /\ call.trades = ExampleLog
    /\ call.result.total_trades = 10
    /\ call.result.net_profit = 12500

\* ------------------------------------------------------------------ C15
\* Gross profit and gross loss of a log.
RECURSIVE GrossProfit(_)
GrossProfit(log) ==
    IF log = <<>> THEN 0
    ELSE (IF log[1].pnl > 0 THEN log[1].pnl ELSE 0) + GrossProfit(Tail(log))
RECURSIVE GrossLoss(_)
GrossLoss(log) ==
    IF log = <<>> THEN 0
    ELSE (IF log[1].pnl < 0 THEN -log[1].pnl ELSE 0) + GrossLoss(Tail(log))

\* C15 (as claimed): for a non-empty trade sequence, in
\* calculate_performance_metrics and in calculate_period_metrics,
\* profit_factor is gross profit / gross loss when gross loss > 0, +infinity
\* when gross loss is zero and gross profit > 0, and 0 when both are zero.
C15_ProfitFactorFallback ==
    (/\ call.fn \in {"calculate_performance_metrics", "calculate_period_metrics"}
     /\ call.trades # <<>>) =>
        LET pf == call.result.profit_factor
            gp == GrossProfit(call.trades)
            gl == GrossLoss(call.trades)
        IN  /\ gl > 0 => FracEq(pf, Frac(gp, gl))
            /\ (gl = 0 /\ gp > 0) => pf = Infinity
            /\ (gl = 0 /\ gp = 0) => FracEq(pf, Frac(0, 1))

\* ------------------------------------------------------------------ C16
\* C16 (as claimed): calculate_performance_metrics on an empty trade sequence
\* returns a metrics record in which the fields total_trades, winning_trades,
\* losing_trades, win_rate, net_profit, profit_factor and max_drawdown are
\* present.
C16_EmptyLogMetricsRecord ==
    (call.fn = "calculate_performance_metrics" /\ call.trades = <<>>) =>
        {"total_trades", "winning_trades", "losing_trades", "win_rate",
         "net_profit", "profit_factor", "max_drawdown"} \subseteq DOMAIN call.result

\* ------------------------------------------------------------------ C17
\* The call in progress or returned is a Monte Carlo simulation.
InMonteCarlo == call.fn = "run_monte_carlo_simulation"
MonteCarloReturned == InMonteCarlo /\ pc = "returned" /\ call.trades # <<>>

RECURSIVE SumFirst(_, _)
SumFirst(sample, k) == IF k = 0 THEN 0 ELSE SumFirst(sample, k - 1) + sample[k]

\* A trial record is made of the sample: each value is a P&L of the log,
\* net_profit is their sum, final_balance adds the initial balance, win_rate
\* is the share of positive values.
MadeOf(record, sample, log) ==
    LET n == Len(log)
    IN  /\ \A k \in 1..n : \E j \in 1..n : sample[k] = log[j].pnl
        /\ record.net_profit = SumFirst(sample, n)
        /\ record.final_balance = self.initial_balance + record.net_profit
        /\ FracEq(record.win_rate,
                  Frac(Cardinality({k \in 1..n : sample[k] > 0}) * 100, n))

\* C18: run_monte_carlo_simulation on a non-empty list of n trades with N
\* runs produces exactly N trial records; each trial is built from exactly n
\* values, each a member of the original P&L list, and in each record
\* net_profit is the sum of those n values, final_balance = initial_balance
\* + net_profit and win_rate = (count of drawn values > 0) / n * 100.
C18_TrialRecords ==
    (InMonteCarlo /\ call.trades # <<>>) =>
        LET n == Len(call.trades)
            results == call.simulation_results
        IN  /\ Len(results) = call.run /\ call.run <= call.num_runs
            /\ pc = "returned" =>
                  /\ call.result.simulation_data = results
                  /\ Len(results) = call.num_runs
            /\ \A k \in 1..Len(results) :
                  /\ results[k].run = k - 1
                  /\ \E sample \in [1..n -> {call.trades[j].pnl : j \in 1..n}] :
                        MadeOf(results[k], sample, call.trades)
            /\ call.run > 0 =>
                  /\ Len(call.simulated_trades) = n
                  /\ MadeOf(results[call.run], call.simulated_trades, call.trades)

\* Two trials on two different trades, the last drawing one trade twice.
C18_Witness ==
    /\ MonteCarloReturned
    /\ call.num_runs = 2 /\ Len(call.trades) = 2
    /\ call.trades[1].pnl # call.trades[2].pnl
    /\ call.simulated_trades[1] = call.simulated_trades[2]
    /\ call.result.simulation_data[1].net_profit
           # call.result.simulation_data[2].net_profit

\* ------------------------------------------------------------------ C19
\* Percentage of the trial records whose total_return satisfies Test.
ShareOfTrials(results, Test(_)) ==
    Frac(Cardinality({k \in 1..Len(results) : Test(results[k].total_return)}) * 100,
         Len(results))
\* A fraction with a positive denominator is at least the integer x.
AtLeast(f, x) == f.num >= x * f.den

\* C19 (as claimed): the target-hit probabilities are, for each of the
\* thresholds DAY_1_TARGET, DAY_2_TARGET and DAY_3_PLUS_TARGET_MIN as loaded
\* from the configuration, the fraction of trials with total_return >= that
\* threshold; break-even is the fraction with total_return >= 0 and loss the
\* fraction with total_return < 0, so that break-even + loss = 100%.
C19_ConfiguredTargets ==
    MonteCarloReturned =>
        LET tp == call.result.target_probabilities
            data == call.result.simulation_data
        IN  /\ FracEq(tp.day1_target.probability,
                      ShareOfTrials(data, LAMBDA r : AtLeast(r, self.config.DAY_1_TARGET)))
            /\ FracEq(tp.day2_target.probability,
                      ShareOfTrials(data, LAMBDA r : AtLeast(r, self.config.DAY_2_TARGET)))
            /\ FracEq(tp.day3_min_target.probability,
                      ShareOfTrials(data, LAMBDA r : AtLeast(r, self.config.DAY_3_PLUS_TARGET_MIN)))
            /\ FracEq(tp.breakeven.probability,
                      ShareOfTrials(data, LAMBDA r : AtLeast(r, 0)))
            /\ FracEq(tp.loss.probability,
                      ShareOfTrials(data, LAMBDA r : ~AtLeast(r, 0)))
            /\ FracEq(FracAdd(tp.breakeven.probability, tp.loss.probability),
                      Frac(100, 1))

\* The part of C19 the code does satisfy: the thresholds are the fixed
\* 900, 200 and 2, and break-even + loss = 100%.
C19_FixedTargets ==
    MonteCarloReturned =>
        LET tp == call.result.target_probabilities
            data == call.result.simulation_data
        IN  /\ FracEq(tp.day1_target.probability,
                      ShareOfTrials(data, LAMBDA r : AtLeast(r, 900)))
            /\ FracEq(tp.day2_target.probability,
                      ShareOfTrials(data, LAMBDA r : AtLeast(r, 200)))
            /\ FracEq(tp.day3_min_target.probability,
                      ShareOfTrials(data, LAMBDA r : AtLeast(r, 2)))
            /\ FracEq(tp.breakeven.probability,
                      ShareOfTrials(data, LAMBDA r : AtLeast(r, 0)))
            /\ FracEq(tp.loss.probability,
                      ShareOfTrials(data, LAMBDA r : ~AtLeast(r, 0)))
            /\ FracEq(FracAdd(tp.breakeven.probability, tp.loss.probability),
                      Frac(100, 1))

\* ------------------------------------------------------------------ C20
\* C20: run_monte_carlo_simulation and run_walk_forward_analysis called
\* with zero trades return the empty dictionary at once: no trial is run, no
\* window is computed and nothing is aggregated.
C20_NoTradesEmptyResult ==
    /\ (InMonteCarlo /\ call.trades = <<>>) =>
           /\ pc = "returned" /\ call.result = [key \in {} |-> 0]
           /\ call.run = 0 /\ call.simulation_results = <<>>
    /\ (call.fn = "run_walk_forward_analysis" /\ call.trades = <<>>) =>
           /\ pc = "returned" /\ call.result = [key \in {} |-> 0]
           /\ call.period_num = 0 /\ call.walk_forward_results = <<>>

\* A walk-forward analysis of no trades has returned.
C20_Witness ==
    /\ call.fn = "run_walk_forward_analysis"
    /\ call.trades = <<>>
    /\ pc = "returned"
    /\ DOMAIN call.result = {}

\* ------------------------------------------------------------------ C21
\* The call in progress or returned is a walk-forward analysis of trades.
InWalkForward == call.fn = "run_walk_forward_analysis" /\ call.trades # <<>>
\* The exit times of the log of the call, its earliest and its latest.
LogExitTimes == {call.trades[k].exit_time : k \in 1..Len(call.trades)}
LogStart == CHOOSE t \in LogExitTimes : \A u \in LogExitTimes : t <= u
LogEnd == CHOOSE t \in LogExitTimes : \A u \in LogExitTimes : u <= t

\* C21: with period 12 months and step 1 month, over a log whose earliest
\* and latest exit times are exactly 13 months apart and which has trades in
\* every month, run_walk_forward_analysis produces exactly 2 windows: window
\* 0 starting at the log start and window 1 starting one month later.
C21_TwoWindowsOverThirteenMonths ==
    (/\ InWalkForward /\ pc = "returned"
     /\ call.period_months = 12 /\ call.step_months = 1
     /\ LogEnd = LogStart + 13
     /\ \A t \in LogStart..LogEnd : t \in LogExitTimes) =>
        LET windows == call.result.period_results
        IN  /\ call.period_num = 2
            /\ Len(windows) = 2
            /\ windows[1].period = 0 /\ windows[1].start_date = LogStart
            /\ windows[1].end_date = LogStart + 12
            /\ windows[2].period = 1 /\ windows[2].start_date = LogStart + 1
            /\ windows[2].end_date = LogStart + 13
            /\ call.result.summary_statistics.total_periods = 2

\* The analysis of the fourteen monthly trades given latest first.
C21_Witness ==
    /\ InWalkForward /\ pc = "returned"
    /\ call.period_months = 12 /\ call.step_months = 1
    /\ Len(call.trades) = 14
    /\ call.trades[1].exit_time = 14 /\ call.trades[14].exit_time = 1
    /\ Len(call.result.period_results) = 2

\* The window of index w of the call, and the positions in the log of the
\* trades whose exit time is inside it.
WindowStart(w) == LogStart + w * call.step_months
WindowEnd(w) == WindowStart(w) + call.period_months
InWindow(w) ==
    {k \in 1..Len(call.trades) :
        /\ WindowStart(w) <= call.trades[k].exit_time
        /\ call.trades[k].exit_time < WindowEnd(w)}
RECURSIVE WindowPnl(_, _)
\* The sum of the pnl of the trades of window w among the first k of the log.
WindowPnl(w, k) ==
    IF k = 0 THEN 0
    ELSE WindowPnl(w, k - 1) + (IF k \in InWindow(w) THEN call.trades[k].pnl ELSE 0)
\* The windows the loop went through that hold a trade.
TradedWindows == {w \in 0..(call.period_num - 1) : InWindow(w) # {}}

\* C22: every window record of run_walk_forward_analysis is computed from
\* exactly the trades with window_start <= exit time < window_end: its
\* num_trades is their count and is at least 1, its net profit and winning
\* trades are theirs; a window without such a trade has no record, and
\* total_periods and profitable_period_rate of the summary are taken over
\* the recorded windows only.
C22_WindowRecords ==
    (InWalkForward /\ pc = "returned") =>
        LET records == call.result.period_results
            n == Len(records)
            profitable == {k \in 1..n : WindowPnl(records[k].period, Len(call.trades)) > 0}
        IN  /\ n = Cardinality(TradedWindows)
            /\ \A w \in TradedWindows : \E k \in 1..n : records[k].period = w
            /\ \A k \in 1..n :
                  LET w == records[k].period
                  IN  /\ w \in TradedWindows
                      /\ records[k].start_date = WindowStart(w)
                      /\ records[k].end_date = WindowEnd(w)
                      /\ records[k].num_trades = Cardinality(InWindow(w))
                      /\ records[k].num_trades >= 1
                      /\ records[k].total_trades = Cardinality(InWindow(w))
                      /\ records[k].net_profit = WindowPnl(w, Len(call.trades))
                      /\ records[k].winning_trades =
                             Cardinality({j \in InWindow(w) : call.trades[j].pnl > 0})
            /\ \A k \in 1..(n - 1) : records[k].period < records[k + 1].period
            /\ n > 0 =>
                  /\ call.result.summary_statistics.total_periods = n
                  /\ FracEq(call.result.summary_statistics.profitable_period_rate,
                            Frac(Cardinality(profitable) * 100, n))

\* An analysis that skipped a window without trades, recorded one with two
\* trades, and has a recorded window that lost.
C22_Witness ==
    /\ InWalkForward /\ pc = "returned"
    /\ Len(call.result.period_results) < call.period_num
    /\ \E k \in 1..Len(call.result.period_results) :
          call.result.period_results[k].num_trades = 2
    /\ \E k \in 1..Len(call.result.period_results) :
          call.result.period_results[k].net_profit < 0

\* An object was constructed from a configuration file.
Constructed == call.fn \in {"ForexBacktester", "MonteCarloSimulator"}
\* The lines of the file that give key a value, and the value it is given
\* last.
KeyLines(key) ==
    {k \in 1..Len(call.config_file.lines) :
        /\ call.config_file.exists
        /\ ~call.config_file.lines[k].comment
        /\ call.config_file.lines[k].key = key}
LastValue(key) ==
    call.config_file.lines[CHOOSE k \in KeyLines(key) : \A j \in KeyLines(key) : j <= k].value
\* A text that writes a number: digits, with at most one '.' among them.
WritesNumber(chars) ==
    /\ \A k \in 1..Len(chars) : chars[k] \in Digits \cup {"."}
    /\ \E k \in 1..Len(chars) : chars[k] \in Digits
    /\ Cardinality({k \in 1..Len(chars) : chars[k] = "."}) <= 1
\* The parameter is missing from the file, or its value is no number.
FallsBack(key) == KeyLines(key) = {} \/ ~WritesNumber(LastValue(key))
\* The attributes of the constructed object with their keys and documented
\* defaults.
Parameters ==
    IF call.fn = "ForexBacktester"
    THEN { <<"RISK_PER_TRADE", call.risk_per_trade, Frac(1, 2)>>,
           <<"DAILY_LOSS_LIMIT", call.daily_loss_limit, Frac(3, 1)>>,
           <<"STOP_LOSS_PIPS", call.stop_loss_pips, Frac(8, 1)>>,
           <<"TAKE_PROFIT_PIPS", call.take_profit_pips, Frac(12, 1)>>,
           <<"BACKTEST_INITIAL_BALANCE", call.initial_balance, Frac(10, 1)>> }
    ELSE { <<"MONTE_CARLO_RUNS", call.simulation_runs, Frac(1000, 1)>>,
           <<"MONTE_CARLO_CONFIDENCE_LEVEL", call.confidence_level, Frac(95, 1)>>,
           <<"BACKTEST_INITIAL_BALANCE", call.initial_balance, Frac(10, 1)>> }

\* C23 (as claimed): a parameter that is missing from the configuration
\* file, or whose value cannot be parsed as a number, takes its documented
\* default (risk 0.5, daily loss limit 3.0, stop-loss 8, take-profit 12,
\* initial balance 10.0, Monte Carlo runs 1000, confidence 95.0), and the
\* run does not abort because of it.
C23_ConfigFallback ==
    Constructed =>
        /\ \A p \in Parameters : FallsBack(p[1]) => p[2] = p[3]
        /\ pc # "TypeError"

\* What the code does keep: a parameter without a line in the file, or
\* without a file, takes its default, and a value that writes a number is
\* that number.
C23_MissingTakesDefault ==
    Constructed =>
        \A p \in Parameters :
            /\ KeyLines(p[1]) = {} => p[2] = p[3]
            /\ (KeyLines(p[1]) # {} /\ WritesNumber(LastValue(p[1]))) => ~IsStr(p[2])

InIndicators == call.fn = "calculate_indicators" /\ pc = "returned"
\* No close-to-close delta of the 14-bar window ending at bar k is negative,
\* and some, or none, is positive.
NoFallInWindow(k) ==
    \A j \in (k - RsiWindow + 1)..k : j > 1 => call.Close[j] >= call.Close[j - 1]
RiseInWindow(k) ==
    \E j \in (k - RsiWindow + 1)..k : j > 1 /\ call.Close[j] > call.Close[j - 1]

\* C24 (as claimed): for every bar with a complete 14-bar window, when the
\* trailing average loss is zero (no negative close-to-close delta in the
\* window, a completely flat window included) calculate_indicators yields
\* RSI = 100, never NaN.
C24_ZeroLossGives100 ==
    InIndicators =>
        \A k \in RsiWindow..Len(call.Close) :
            NoFallInWindow(k) => call.RSI[k] = Frac(100, 1)

\* What the code does yield: 100 exactly when no delta of the window is
\* negative and one is positive, and NaN on a flat window.
C24_RSIOfWindowWithoutFall ==
    InIndicators =>
        \A k \in RsiWindow..Len(call.Close) :
            /\ (NoFallInWindow(k) /\ RiseInWindow(k)) <=> call.RSI[k] = Frac(100, 1)
            /\ (NoFallInWindow(k) /\ ~RiseInWindow(k)) <=> call.RSI[k] = NaNFloat

\* The sum of the pnl of the first k trades of a list.
PnlBefore(tr, k) == SumOver([j \in 1..Len(tr) |-> tr[j].pnl], 1, k)

C26_PnlSignByBoundary ==
    (self.stop_loss_pips > 0 /\ self.take_profit_pips > 0) =>
        \A k \in 1..Len(trades) :
            LET t == trades[k]
                move == t.exit_price - t.entry_price
            IN  /\ t.pnl # 0
                /\ t.direction = "BUY" =>
                      /\ t.pnl = move * t.lot_size * CentsPerPip(t.symbol)
                      /\ \/ move <= -self.stop_loss_pips /\ t.pnl < 0
                         \/ move >= self.take_profit_pips /\ t.pnl > 0
                /\ t.direction = "SELL" =>
                      /\ t.pnl = -move * t.lot_size * CentsPerPip(t.symbol)
                      /\ \/ move >= self.stop_loss_pips /\ t.pnl < 0
                         \/ move <= -self.take_profit_pips /\ t.pnl > 0

\* A log with a long that was stopped out and a short that reached its
\* target.
C26_Witness ==
    /\ self.stop_loss_pips > 0 /\ self.take_profit_pips > 0
    /\ \E k \in 1..Len(trades) : trades[k].direction = "BUY" /\ trades[k].pnl < 0
    /\ \E k \in 1..Len(trades) : trades[k].direction = "SELL" /\ trades[k].pnl > 0

\* C27: in simulate_trades the consecutive-loss counter always stays in
\* 0..3: it increases by one on a close with pnl < 0, is reset to 0 on a
\* close with pnl >= 0, and changes on no other step.
C27_LossCounter ==
    /\ [](consecutive_losses \in 0..ConsecutiveLossLimit)
    /\ [][LET closed == Len(trades') = Len(trades) + 1
              pnl == trades'[Len(trades')].pnl
          IN  /\ consecutive_losses' # consecutive_losses => closed
              /\ (closed /\ pnl < 0) => consecutive_losses' = consecutive_losses + 1
              /\ (closed /\ pnl >= 0) => consecutive_losses' = 0]_vars

\* The counter reached 3, and a win reset it from a positive value.
C27_Witness ==
    /\ consecutive_losses = ConsecutiveLossLimit
    /\ Len(trades) > ConsecutiveLossLimit
    /\ trades[1].pnl > 0

\* The largest drop of the cumulative pnl of a log from an earlier or the
\* same cumulative sum, in the order given.
LargestDrop(log) ==
    LET ordered == { PnlBefore(log, c[1]) - PnlBefore(log, c[2]) :
                       c \in { d \in (1..Len(log)) \X (1..Len(log)) : d[1] <= d[2] } }
    IN  CHOOSE d \in ordered : \A e \in ordered : e <= d
\* The max_drawdown a returned call reports.
ReportedDrawdown ==
    IF call.fn = "calculate_max_drawdown" THEN call.result ELSE call.result.max_drawdown

\* C28: the three drawdown computations agree: for every P&L sequence in a
\* given order, max_drawdown of calculate_performance_metrics,
\* calculate_max_drawdown and max_drawdown of calculate_period_metrics are
\* the largest drop of the cumulative P&L from its running peak over the
\* cumulative sums in the order given; it is never negative and is 0 for a
\* single trade.
C28_DrawdownsAgree ==
    (/\ pc = "returned"
     /\ call.fn \in {"calculate_performance_metrics", "calculate_max_drawdown",
                     "calculate_period_metrics"}
     /\ call.trades # <<>>) =>
        /\ ReportedDrawdown = LargestDrop(call.trades)
        /\ ReportedDrawdown >= 0
        /\ Len(call.trades) = 1 => ReportedDrawdown = 0

\* calculate_max_drawdown on the example log, whose largest drop follows
\* its last peak.
C28_Witness ==
    /\ pc = "returned" /\ call.fn = "calculate_max_drawdown"
    /\ call.trades = ExampleLog /\ call.result = 3000

\* The trades of the log that exit at its latest exit time.
LatestTrades == {k \in 1..Len(call.trades) : call.trades[k].exit_time = LogEnd}

\* C29: in run_walk_forward_analysis every window end is <= the latest exit
\* time of the log and windows are half-open, so a trade whose exit time
\* equals the latest exit time of the log is contained in no window, for
\* every period and step: no window record counts it.
C29_LatestTradeInNoWindow ==
    (InWalkForward /\ pc \in {"windows", "returned"}) =>
        /\ \A w \in 0..(call.period_num - 1) : WindowEnd(w) <= LogEnd
        /\ \A k \in 1..Len(call.walk_forward_results) :
              LET r == call.walk_forward_results[k]
              IN  /\ r.end_date <= LogEnd
                  /\ r.num_trades =
                         Cardinality({j \in 1..Len(call.trades) \ LatestTrades :
                                        /\ r.start_date <= call.trades[j].exit_time
                                        /\ call.trades[j].exit_time < r.end_date})
                  /\ r.num_trades <= Len(call.trades) - Cardinality(LatestTrades)

\* An analysis whose last window ends at the latest exit time and counts
\* every trade but the latest.
C29_Witness ==
    /\ InWalkForward /\ pc = "returned"
    /\ Len(call.trades) > 1
    /\ \E k \in 1..Len(call.walk_forward_results) :
          /\ call.walk_forward_results[k].end_date = LogEnd
          /\ call.walk_forward_results[k].num_trades = Len(call.trades) - 1

InMain == call.fn = "main"
\* main has called the function of that name.
Called(name) == \E k \in 1..Len(call.calls) : call.calls[k] = name
\* The analyses and the report generation.
AnalysisCalled ==
    \/ Called("run_monte_carlo_simulation")
    \/ Called("run_walk_forward_analysis")
    \/ Called("generate_comprehensive_report")
\* The backtest, or the loaded result, has at least one trade.
HasTrades ==
    /\ call.backtest_results # None
    /\ Len(call.backtest_results.all_trades) >= 1

\* C30 (as claimed): Monte Carlo, walk-forward and report generation run
\* only after a backtest (or loaded result) with at least one trade,
\* otherwise main stops before them; and when the backtest has trades and
\* Monte Carlo is not skipped, main runs through report generation and the
\* final execution summary to the completion message without raising.
C30_PipelineOrderAndCompletion ==
    InMain =>
        /\ AnalysisCalled => HasTrades
        /\ (~HasTrades /\ pc # "stopped") => ~AnalysisCalled
        /\ (HasTrades /\ ~call.args.skip_monte_carlo) => pc # "NameError"

\* What the code does keep: after run_backtest the analyses and the reports
\* run only with trades, and main ends at the completion message exactly
\* when there is no Monte Carlo result to summarise.
C30_BacktestWithoutTradesStops ==
    InMain =>
        /\ (Called("run_backtest") /\ AnalysisCalled) => HasTrades
        /\ pc = "NameError" =>
              (HasTrades /\ ~call.args.skip_monte_carlo /\ Called("print_final_summary"))
        /\ pc \in {"completion", "finished"} =>
              (~HasTrades \/ call.args.skip_monte_carlo)

====
